---- MODULE Spec2Model ----
(***************************************************************************)
(* EPUB import of wnreader: parseEpub (src/src/lib/html-to-text.ts,        *)
(* lines 256-828) and the import route that stores its result              *)
(* (src/src/app/api/import/route.ts, lines 7-149).                         *)
(*                                                                         *)
(* Strings of the program are modelled as sequences of tokens.  A token is *)
(* either a separator the code looks for ("/", "\\", ",", " ", "#", "?",   *)
(* "data:", "http://", "javascript:", ...) or an opaque run of characters  *)
(* holding none of them ("OEBPS", "a.png", "image/png").  String           *)
(* operations (split, startsWith, replace, join) are computed on tokens    *)
(* the way the code computes them on characters.                           *)
(***************************************************************************)
EXTENDS Integers, Sequences, FiniteSets, TLC

\* Longest spine drawn for an archive.
MaxSpine == 2
\* Most elements drawn for one content document of the chapter-level inputs.
MaxElems == 2

(***************************************************************************)
(* Strings                                                                 *)
(***************************************************************************)

\* The empty string; also what an absent attribute reads as wherever the
\* code tests it with `!value`.
Empty == <<>>

\* `const x = value` followed by body: body applied to the value.
Let(value, Body(_)) == Body(value)

RECURSIVE Concat(_)
\* Array.prototype.join("") of a sequence of strings.
Concat(ss) == IF ss = <<>> THEN <<>> ELSE Head(ss) \o Concat(Tail(ss))

RECURSIVE SplitOn(_, _)
\* String.prototype.split(sep) for a one-token separator: the pieces between
\* the occurrences of sep, empty pieces included.
SplitOn(s, sep) ==
  IF \A i \in 1..Len(s) : s[i] # sep THEN <<s>>
  ELSE LET i == CHOOSE k \in 1..Len(s) : s[k] = sep /\ \A j \in 1..(k-1) : s[j] # sep
       IN <<SubSeq(s, 1, i-1)>> \o SplitOn(SubSeq(s, i+1, Len(s)), sep)

RECURSIVE JoinWith(_, _)
\* Array.prototype.join(sep) for a string separator.
JoinWith(ss, sep) ==
  IF ss = <<>> THEN <<>>
  ELSE IF Len(ss) = 1 THEN ss[1]
  ELSE ss[1] \o sep \o JoinWith(Tail(ss), sep)

\* href.replace(/\\/g, "/")
ReplaceBackslash(s) == [i \in 1..Len(s) |-> IF s[i] = "\\" THEN "/" ELSE s[i]]

\* s.startsWith(t) for a one-token prefix t.
StartsWith(s, t) == Len(s) > 0 /\ s[1] = t

\* /^https?:\/\//i.test(s)
IsHttp(s) == Len(s) > 0 /\ s[1] \in {"http://", "https://", "HTTP://", "HTTPS://"}

\* s.startsWith("data:"), a case-sensitive test.
IsData(s) == StartsWith(s, "data:")

\* [ \t\n] as matched by \s, by trim() and by split(/\s+/).
IsSpace(t) == t = " "

RECURSIVE TrimLeft(_)
TrimLeft(s) == IF s # <<>> /\ IsSpace(Head(s)) THEN TrimLeft(Tail(s)) ELSE s

RECURSIVE TrimRight(_)
TrimRight(s) ==
  IF s # <<>> /\ IsSpace(s[Len(s)]) THEN TrimRight(SubSeq(s, 1, Len(s)-1)) ELSE s

\* String.prototype.trim()
Trim(s) == TrimRight(TrimLeft(s))

(***************************************************************************)
(* Percent-encoding.  A token is decoded or encoded as a whole.            *)
(***************************************************************************)

\* Tokens holding a well-formed escape, with what it decodes to.
DecodeTable ==
  [t \in {"a%20b.png", "ch%20x.xhtml", "s%20t.css"} |->
     CASE t = "a%20b.png"    -> "a b.png"
       [] t = "ch%20x.xhtml" -> "ch x.xhtml"
       [] t = "s%20t.css"    -> "s t.css"]

\* Tokens holding a "%" that starts no escape: decodeURIComponent throws
\* URIError on a string that holds one.
MalformedTokens == {"bad%zz.png", "bad%zz.xhtml", "bad%zz.css", "100%.jpg"}

\* Whether decodeURIComponent(s) throws.
DecodeThrows(s) == \E i \in 1..Len(s) : s[i] \in MalformedTokens

\* decodeURIComponent(s), for a string on which it does not throw.
decodeURIComponent(s) ==
  [i \in 1..Len(s) |-> IF s[i] \in DOMAIN DecodeTable THEN DecodeTable[s[i]] ELSE s[i]]

\* cleanPath.replace(/\s/g, "%20")
SpacesToPct(s) ==
  [i \in 1..Len(s) |->
     CASE s[i] = "a b.png"      -> "a%20b.png"
       [] s[i] = "ch x.xhtml"   -> "ch%20x.xhtml"
       [] s[i] = "s t.css"      -> "s%20t.css"
       [] s[i] = " "            -> "%20"
       [] OTHER                 -> s[i]]

\* encodeURI(s): a space becomes %20, and "%" itself becomes %25, so an
\* already encoded token is encoded again.
encodeURI(s) ==
  [i \in 1..Len(s) |->
     CASE s[i] = "a b.png"      -> "a%20b.png"
       [] s[i] = "ch x.xhtml"   -> "ch%20x.xhtml"
       [] s[i] = "s t.css"      -> "s%20t.css"
       [] s[i] = " "            -> "%20"
       [] s[i] = "a%20b.png"    -> "a%2520b.png"
       [] s[i] = "ch%20x.xhtml" -> "ch%2520x.xhtml"
       [] s[i] = "s%20t.css"    -> "s%2520t.css"
       [] s[i] = "bad%zz.png"   -> "bad%25zz.png"
       [] s[i] = "bad%zz.xhtml" -> "bad%25zz.xhtml"
       [] s[i] = "bad%zz.css"   -> "bad%25zz.css"
       [] s[i] = "100%.jpg"     -> "100%25.jpg"
       [] OTHER                 -> s[i]]

(***************************************************************************)
(* Paths                                                                   *)
(***************************************************************************)

\* The stack walk shared by path.posix.normalize and resolveZipPath.
\* keepUp: whether a ".." met on an empty stack is kept (normalize of a
\* relative path) or dropped.
RECURSIVE PopDots(_, _, _)
PopDots(parts, stack, keepUp) ==
  IF parts = <<>> THEN stack
  ELSE LET p == Head(parts) IN
       IF p = <<"..">> THEN
         IF stack # <<>> /\ stack[Len(stack)] # <<"..">>
           THEN PopDots(Tail(parts), SubSeq(stack, 1, Len(stack)-1), keepUp)
         ELSE IF keepUp THEN PopDots(Tail(parts), Append(stack, p), keepUp)
         ELSE PopDots(Tail(parts), stack, keepUp)
       ELSE PopDots(Tail(parts), Append(stack, p), keepUp)

\* The segments of a path that are neither "" nor ".".
Segments(s) == SelectSeq(SplitOn(s, "/"), LAMBDA p : p # <<".">> /\ p # <<>>)

\* path.posix.normalize(s)
PosixNormalize(s) ==
  LET isAbs == StartsWith(s, "/")
      trail == Len(s) > 0 /\ s[Len(s)] = "/"
      body  == JoinWith(PopDots(Segments(s), <<>>, ~isAbs), <<"/">>)
  IN  IF body = <<>> THEN (IF isAbs THEN <<"/">> ELSE <<".">>)
      ELSE (IF isAbs THEN <<"/">> ELSE <<>>) \o body \o (IF trail THEN <<"/">> ELSE <<>>)

\* path.posix.join(a, b)
PosixJoin(a, b) ==
  IF a = <<>> /\ b = <<>> THEN <<".">>
  ELSE IF a = <<>> THEN PosixNormalize(b)
  ELSE IF b = <<>> THEN PosixNormalize(a)
  ELSE PosixNormalize(a \o <<"/">> \o b)

\* path.posix.dirname(s), for a path with no trailing slash.
PosixDirname(s) ==
  IF \A i \in 1..Len(s) : s[i] # "/" THEN <<".">>
  ELSE LET i == CHOOSE k \in 1..Len(s) : s[k] = "/" /\ \A j \in (k+1)..Len(s) : s[j] # "/"
       IN IF i = 1 THEN <<"/">> ELSE SubSeq(s, 1, i-1)

\* resolveZipPath(baseDir, href)
resolveZipPath(baseDir, href) ==
  LET normalized == ReplaceBackslash(href) IN
  IF baseDir = <<>> \/ baseDir = <<".">> THEN normalized
  ELSE IF StartsWith(normalized, "/") THEN Tail(normalized)
  ELSE LET joined == ReplaceBackslash(PosixJoin(baseDir, normalized))
       IN JoinWith(PopDots(Segments(joined), <<>>, FALSE), <<"/">>)

\* detectMimeFromExt(href): by the extension of the last token.
detectMimeFromExt(href) ==
  LET last == IF href = <<>> THEN "" ELSE href[Len(href)] IN
  CASE last \in {"a.png", "a b.png", "a%20b.png", "bad%zz.png"} -> "image/png"
    [] last \in {"b.jpg", "cover.jpg", "100%.jpg"}            -> "image/jpeg"
    [] OTHER                                                   -> "application/octet-stream"

\* mediaType.includes("html")
IncludesHtml(mediaType) == mediaType \in {"application/xhtml+xml", "text/html"}

\* mediaType.startsWith("image/")
IsImageType(mediaType) == mediaType \in {"image/png", "image/jpeg"}

\* s.toLowerCase(), character by character.
LowerChar(c) ==
  CASE c = "N" -> "n" [] c = "O" -> "o" [] c = "Y" -> "y"
    [] c = "E" -> "e" [] c = "S" -> "s" [] OTHER -> c

toLowerCase(s) == [i \in 1..Len(s) |-> LowerChar(s[i])]

(***************************************************************************)
(* The archive.  zip is what JSZip.loadAsync returns for the uploaded      *)
(* bytes: whether they open as a ZIP, and the entries by name.  An entry   *)
(* is [kind, data]: the container, the package document (opf), a content   *)
(* document (doc), a stylesheet (css) or other bytes (bin).                *)
(***************************************************************************)

VARIABLES
  zip,        \* the archive the request's bytes are: [ok, files]
  pc,         \* position of the import request in POST / parseEpub
  index,      \* parseEpub's spine loop counter
  chapters,   \* parseEpub's chapters array
  origin,     \* history: origin[k] is the spine index chapters[k] came from
  dom,        \* the cheerio document $ of the spine item being processed
  tasks,      \* resourceTasks not yet settled
  error,      \* the error the request ended with, or "none"
  parsed,     \* the ParsedEpub returned, or NoBook
  db,         \* the Novel and Chapter rows the request stored
  call,       \* one call of a path function by itself: its arguments and result
  tts,        \* the useTTS hook: its state, its refs, the speech synthesizer
  eleven,     \* the useElevenLabsTTS hook: its state, its refs, the audio element
  reader      \* ReaderView's progress sync: the page, its timer and requests, the server

\* The variables of the import request, and those of the reader's hooks.
importVars == <<zip, pc, index, chapters, origin, dom, tasks, error, parsed, db>>
hookVars == <<tts, eleven, reader>>
vars == <<importVars, call, hookVars>>

ContainerPath == <<"META-INF", "/", "container.xml">>
OpfPath == <<"OEBPS", "/", "content.opf">>

\* zip.file(name): the entry of that exact name, or null.
HasFile(name) == name \in DOMAIN zip.files
File(name) == zip.files[name]

NoBook == [none |-> TRUE]
\* No bytes read yet.
NoZip == [ok |-> FALSE, files |-> <<>>]
NoDom == [nodes |-> <<>>]
NoCall == [fn |-> "none"]
\* A hook that is not mounted.
Unmounted == [mounted |-> FALSE]

(***************************************************************************)
(* The package: what parseEpub reads from container.xml and the OPF        *)
(* (lines 264-291).  All of it is a function of the archive.               *)
(***************************************************************************)

\* containerDoc?.container?.rootfiles?.rootfile?.["@_full-path"]
rootFilePath == File(ContainerPath).data

opf == File(rootFilePath).data
manifest == opf.manifest
spine == opf.spine
baseDir == PosixDirname(rootFilePath)

\* manifestMap.get(id): new Map(manifest.map(item => [id, item])) keeps the
\* last item of an id.
ManifestHas(id) == \E i \in 1..Len(manifest) : manifest[i].id = id
ManifestGet(id) ==
  manifest[CHOOSE i \in 1..Len(manifest) :
             manifest[i].id = id /\ \A j \in (i+1)..Len(manifest) : manifest[j].id # id]

\* The keys of manifestHrefMap in insertion order (lines 286-291): the
\* resolved href of every manifest item that has one, each key once, at the
\* place of its first insertion.
ManifestKey(i) == resolveZipPath(baseDir, manifest[i].href)
ManifestKeyIdx ==
  SelectSeq([i \in 1..Len(manifest) |-> i],
            LAMBDA i : manifest[i].href # Empty
                       /\ \A j \in 1..(i-1) : manifest[j].href = Empty \/ ManifestKey(j) # ManifestKey(i))

\* manifestHrefMap.get(key): the last item inserted under the key.
HrefMapHas(key) == \E i \in 1..Len(manifest) : manifest[i].href # Empty /\ ManifestKey(i) = key
HrefMapGet(key) ==
  manifest[CHOOSE i \in 1..Len(manifest) :
             /\ manifest[i].href # Empty /\ ManifestKey(i) = key
             /\ \A j \in (i+1)..Len(manifest) : manifest[j].href = Empty \/ ManifestKey(j) # key]

\* The entries of manifestHrefMap in iteration order.
HrefMapEntries == [k \in 1..Len(ManifestKeyIdx) |-> HrefMapGet(ManifestKey(ManifestKeyIdx[k]))]

(***************************************************************************)
(* getResourceDataUri (lines 295-356)                                      *)
(***************************************************************************)

\* s.endsWith(t)
EndsWith(s, t) == Len(t) <= Len(s) /\ SubSeq(s, Len(s) - Len(t) + 1, Len(s)) = t

\* s.includes(t)
Includes(s, t) == \E i \in 0..(Len(s) - Len(t)) : SubSeq(s, i + 1, i + Len(t)) = t

\* s.replace(/^\//, "")
StripSlash(s) == IF StartsWith(s, "/") THEN Tail(s) ELSE s

\* s.replace(/^\.\//, "")
StripDotSlash(s) == IF Len(s) >= 2 /\ s[1] = "." /\ s[2] = "/" THEN SubSeq(s, 3, Len(s)) ELSE s

\* resourcePath.split("#")[0].split("?")[0], then decoded unless decoding
\* throws (lines 297-304).
CleanPath(resourcePath) ==
  LET c == SplitOn(SplitOn(resourcePath, "#")[1], "?")[1]
  IN  IF DecodeThrows(c) THEN c ELSE decodeURIComponent(c)

\* pathVariations (lines 307-316)
pathVariations(cleanPath) ==
  << cleanPath,
     encodeURI(cleanPath),
     StripSlash(cleanPath),
     StripSlash(encodeURI(cleanPath)),
     StripDotSlash(cleanPath),
     StripDotSlash(encodeURI(cleanPath)),
     SpacesToPct(cleanPath) >>

\* The first path of a list that names an entry of the archive; Empty if none.
FirstHit(paths) ==
  IF \A i \in 1..Len(paths) : ~HasFile(paths[i]) THEN Empty
  ELSE paths[CHOOSE i \in 1..Len(paths) : HasFile(paths[i]) /\ \A j \in 1..(i-1) : ~HasFile(paths[j])]

RECURSIVE ManifestScan(_, _)
\* The manifest fallback loop (lines 330-347) over the entries not yet
\* visited: [st |-> "found", path], [st |-> "null"] or [st |-> "throw"] when
\* decodeURIComponent(cleanPath) throws.
ManifestScan(entries, cleanPath) ==
  IF entries = <<>> THEN [st |-> "null", path |-> Empty]
  ELSE Let(resolveZipPath(baseDir, Head(entries).href), LAMBDA resolved :
       IF resolved = cleanPath THEN
         IF HasFile(resolved) THEN [st |-> "found", path |-> resolved]
         ELSE ManifestScan(Tail(entries), cleanPath)
       ELSE IF DecodeThrows(cleanPath) THEN [st |-> "throw", path |-> Empty]
       ELSE IF (resolved = decodeURIComponent(cleanPath) \/ EndsWith(resolved, cleanPath)
                \/ EndsWith(resolved, decodeURIComponent(cleanPath)))
               /\ HasFile(resolved)
              THEN [st |-> "found", path |-> resolved]
       ELSE ManifestScan(Tail(entries), cleanPath))

\* `data:${mediaType};base64,${base64}`
DataUri(mediaType, base64) == <<"data:", mediaType, ";base64", ",", base64>>

\* getResourceDataUri(resourcePath): [st |-> "ok", uri], [st |-> "null"], or
\* [st |-> "throw"] for the URIError of line 336.
getResourceDataUri(resourcePath) ==
  Let(CleanPath(resourcePath), LAMBDA cleanPath :
  Let(FirstHit(pathVariations(cleanPath)), LAMBDA hit :
  Let(IF hit # Empty THEN [st |-> "found", path |-> hit]
      ELSE ManifestScan(HrefMapEntries, cleanPath), LAMBDA scan :
    IF scan.st = "throw" THEN [st |-> "throw", uri |-> Empty]
    ELSE IF scan.st = "null" THEN [st |-> "null", uri |-> Empty]
    ELSE Let(IF HrefMapHas(scan.path) THEN HrefMapGet(scan.path).mediaType ELSE "", LAMBDA declared :
           [st  |-> "ok",
            uri |-> DataUri(IF declared # "" THEN declared ELSE detectMimeFromExt(scan.path),
                            File(scan.path).b64)]))))

(***************************************************************************)
(* substituteCssUrls (lines 358-396).  A stylesheet is a sequence of       *)
(* pieces [k, ref]: "url" is url(ref); "importUrl" is @import url(ref); ;  *)
(* "import" is @import "ref"; ; "text" is any other text, held in ref.     *)
(***************************************************************************)

CssUrl(ref) == [k |-> "url", ref |-> ref]
CssImport(ref) == [k |-> "import", ref |-> ref]
CssImportUrl(ref) == [k |-> "importUrl", ref |-> ref]
CssText(t) == [k |-> "text", ref |-> <<t>>]

\* css.matchAll(/url\(([^)]+)\)/g): every url(...), the one of an
\* @import url(...) included.
UrlMatches(css) == SelectSeq(css, LAMBDA t : t.k \in {"url", "importUrl"})

\* css.matchAll(/@import\s+(?:url\()?['"]?([^'")]+)['"]?\)?;/g)
ImportMatches(css) == SelectSeq(css, LAMBDA t : t.k \in {"import", "importUrl"})

\* updated.replace(match[0], `url(${dataUri})`): the first url(ref) of the
\* text, wherever it stands, becomes url(dataUri).
ReplaceFirstUrl(css, ref, dataUri) ==
  IF \A i \in 1..Len(css) : ~(css[i].k \in {"url", "importUrl"} /\ css[i].ref = ref) THEN css
  ELSE LET i == CHOOSE k \in 1..Len(css) :
                  /\ css[k].k \in {"url", "importUrl"} /\ css[k].ref = ref
                  /\ \A j \in 1..(k-1) : ~(css[j].k \in {"url", "importUrl"} /\ css[j].ref = ref)
       IN [css EXCEPT ![i].ref = dataUri]

\* updated.replace(match[0], substituted): the first occurrence of the whole
\* @import rule, as it was written, becomes the imported text.
ReplaceFirstImport(css, rule, substituted) ==
  IF \A i \in 1..Len(css) : css[i] # rule THEN css
  ELSE LET i == CHOOSE k \in 1..Len(css) : css[k] = rule /\ \A j \in 1..(k-1) : css[j] # rule
       IN SubSeq(css, 1, i-1) \o substituted \o SubSeq(css, i+1, Len(css))

\* The text of an archive entry read as a stylesheet.
CssOf(path) == IF File(path).kind = "css" THEN File(path).data ELSE <<CssText("bytes")>>

\* zip.file(path) || zip.file(decodeURIComponent(path)): [st |-> "found",
\* path] with the name that hit, [st |-> "null"], or [st |-> "throw"] when the
\* first lookup misses and the path cannot be decoded.
FileOrDecoded(path) ==
  IF HasFile(path) THEN [st |-> "found", path |-> path]
  ELSE IF DecodeThrows(path) THEN [st |-> "throw", path |-> Empty]
  ELSE IF HasFile(decodeURIComponent(path)) THEN [st |-> "found", path |-> decodeURIComponent(path)]
  ELSE [st |-> "null", path |-> Empty]

RECURSIVE UrlLoop(_, _, _)
\* Lines 364-374 over the url matches not yet visited.
UrlLoop(matches, updated, cssDir) ==
  IF matches = <<>> THEN [st |-> "ok", css |-> updated]
  ELSE LET rawRef == Head(matches).ref IN
       IF rawRef = Empty \/ IsData(rawRef) \/ IsHttp(rawRef)
         THEN UrlLoop(Tail(matches), updated, cssDir)
       ELSE Let(getResourceDataUri(resolveZipPath(cssDir, rawRef)), LAMBDA r :
            IF r.st = "throw" THEN [st |-> "throw", css |-> updated]
            ELSE IF r.st = "ok"
              THEN UrlLoop(Tail(matches), ReplaceFirstUrl(updated, rawRef, r.uri), cssDir)
            ELSE UrlLoop(Tail(matches), updated, cssDir))

RECURSIVE SubstituteCall(_, _, _)
RECURSIVE ImportLoop(_, _, _, _)
\* Lines 379-393 over the import matches not yet visited.  active: the calls
\* of substituteCssUrls in progress, as <<css, cssDir>> pairs.
ImportLoop(matches, updated, cssDir, active) ==
  IF matches = <<>> THEN [st |-> "ok", css |-> updated]
  ELSE LET rawRef == Head(matches).ref IN
       IF rawRef = Empty \/ IsData(rawRef) \/ IsHttp(rawRef)
         THEN ImportLoop(Tail(matches), updated, cssDir, active)
       ELSE Let(resolveZipPath(cssDir, rawRef), LAMBDA resourcePath :
            Let(FileOrDecoded(resourcePath), LAMBDA file :
            IF file.st = "throw" THEN [st |-> "throw", css |-> updated]
            ELSE IF file.st = "null" THEN ImportLoop(Tail(matches), updated, cssDir, active)
            ELSE Let(SubstituteCall(CssOf(file.path), PosixDirname(resourcePath), active), LAMBDA sub :
                 IF sub.st # "ok" THEN [st |-> sub.st, css |-> updated]
                 ELSE ImportLoop(Tail(matches),
                                 ReplaceFirstImport(updated, Head(matches), sub.css), cssDir,
                                 active))))

\* One call of substituteCssUrls made while the calls of active are in
\* progress.  The function is deterministic in its arguments and the
\* archive, and nothing in it limits its depth: a call made with the
\* arguments of a call in progress repeats that call's steps up to the same
\* call again, without end.  [st |-> "loop"] stands for such a call, which
\* never returns.
SubstituteCall(css, cssDir, active) ==
  IF <<css, cssDir>> \in active THEN [st |-> "loop", css |-> css]
  ELSE Let(UrlLoop(UrlMatches(css), css, cssDir), LAMBDA urls :
           IF urls.st = "throw" THEN urls
           ELSE ImportLoop(ImportMatches(css), urls.css, cssDir, active \cup {<<css, cssDir>>}))

\* substituteCssUrls(css, cssDir): [st |-> "ok", css], [st |-> "throw"], or
\* [st |-> "loop"] when the call never returns.
substituteCssUrls(css, cssDir) == SubstituteCall(css, cssDir, {})

(***************************************************************************)
(* Content documents.  A document is the sequence of its elements in       *)
(* document order, as cheerio's HTML parser places them (loc is "head" or  *)
(* "body").  An element is                                                 *)
(*   tag     its name; "image" stands for <svg><image/></svg>, "#text" for *)
(*           bare text;                                                    *)
(*   src     img src, a href, link href, image href;                       *)
(*   xlink   image xlink:href;   srcset   img srcset;                      *)
(*   css     the text of a style element, or the style attribute of any    *)
(*           other element;                                                *)
(*   text    its text, as word tokens;   len   the length of that text;    *)
(*   cls     whether its class attribute contains "title";                 *)
(*   on      whether it carries an onclick or onerror attribute.           *)
(***************************************************************************)

Node(tag, loc) ==
  [tag |-> tag, loc |-> loc, src |-> Empty, xlink |-> Empty, srcset |-> Empty,
   css |-> <<>>, text |-> <<>>, len |-> 0, cls |-> FALSE, on |-> FALSE]

\* The positions of a sequence, in order.
Indices(seq) == [i \in 1..Len(seq) |-> i]

\* $(selector): the positions of the matching elements, in document order.
Select(d, Test(_)) == SelectSeq(Indices(d.nodes), LAMBDA i : Test(d.nodes[i]))

IsImg(n) == n.tag = "img"
IsSvg(n) == n.tag \in {"svg", "image"}
IsStyleSheetLink(n) == n.tag = "link"
IsStyleBlock(n) == n.tag = "style"
HasStyleAttr(n) == n.tag # "style" /\ n.css # <<>>

\* styleValue.includes("url(")
CssHasUrl(css) == \E i \in 1..Len(css) : css[i].k \in {"url", "importUrl"}

\* [style*='background-image']
HasBackgroundImage(n) ==
  HasStyleAttr(n) /\ \E i \in 1..Len(n.css) : n.css[i] = [k |-> "text", ref |-> <<"background-image:">>]

\* load(rawHtml) followed by $("script").remove() (lines 431-432)
LoadAndStripScripts(doc) == [nodes |-> SelectSeq(doc.nodes, LAMBDA n : n.tag # "script")]

(***************************************************************************)
(* The spine item at the loop counter (lines 398-441)                      *)
(***************************************************************************)

itemRef(i) == spine[i + 1]

\* The linear test with the toLowerCase() call left out.
IsNonLinearCaseSensitive(ref) == ref.linear.type = "string" /\ ref.linear.value = <<"n", "o">>

\* typeof linear === "string" && linear.toLowerCase() === "no"
IsNonLinear(ref) == ref.linear.type = "string" /\ toLowerCase(ref.linear.value) = <<"n", "o">>

\* resolvedPath of lines 416-425, for the manifest item of the item.
ResolvedPath(i) == StripSlash(resolveZipPath(baseDir, ManifestGet(itemRef(i).idref).href))

\* What the filter of lines 400-428 does with the item: "skip" (a continue),
\* "throw" (decodeURIComponent of line 427 throws URIError) or "read".
ItemFate(i) ==
  Let(itemRef(i), LAMBDA ref :
    IF ref.idref = "" THEN "skip"
    ELSE IF IsNonLinear(ref) THEN "skip"
    ELSE IF ~ManifestHas(ref.idref) THEN "skip"
    ELSE Let(ManifestGet(ref.idref), LAMBDA item :
         IF item.mediaType = "" \/ ~IncludesHtml(item.mediaType) THEN "skip"
         ELSE IF item.href = Empty THEN "skip"
         ELSE Let(FileOrDecoded(ResolvedPath(i)), LAMBDA file :
              IF file.st = "throw" THEN "throw"
              ELSE IF file.st = "null" THEN "skip"
              ELSE "read")))

\* The archive entry line 427 finds.
ItemFile(i) == File(FileOrDecoded(ResolvedPath(i)).path)

\* htmlDir (lines 436-441)
HtmlDir(i) == StripSlash(PosixDirname(ResolvedPath(i)))

(***************************************************************************)
(* Resource tasks (lines 442-589).  A task is [kind, node, snap]: the      *)
(* element it was started for and that element as it was when the document *)
(* was scanned, which is where the values its closure captured come from.  *)
(***************************************************************************)

Task(kind, i, d) == [kind |-> kind, node |-> i, snap |-> d.nodes[i]]

\* The tasks the scan of lines 444-585 starts, as a set.
ScanTasks(d) ==
  LET I == 1..Len(d.nodes)
      Relative(ref) == ref # Empty /\ ~IsData(ref) /\ ~IsHttp(ref)
  IN    { Task("link", i, d)   : i \in { j \in I : IsStyleSheetLink(d.nodes[j]) /\ Relative(d.nodes[j].src) } }
   \cup { Task("style", i, d)  : i \in { j \in I : IsStyleBlock(d.nodes[j]) /\ d.nodes[j].css # <<>> } }
   \cup { Task("src", i, d)    : i \in { j \in I : IsImg(d.nodes[j]) /\ Relative(d.nodes[j].src) } }
   \cup { Task("srcset", i, d) : i \in { j \in I : IsImg(d.nodes[j])
                                                   /\ SelectSeq(SplitOn(d.nodes[j].srcset, ","),
                                                                LAMBDA e : Trim(e) # <<>>) # <<>> } }
   \cup { Task("image", i, d)  : i \in { j \in I : d.nodes[j].tag = "image"
                                                   /\ Relative(IF d.nodes[j].src # Empty THEN d.nodes[j].src
                                                               ELSE d.nodes[j].xlink) } }
   \cup { Task("attr", i, d)   : i \in { j \in I : HasStyleAttr(d.nodes[j]) /\ CssHasUrl(d.nodes[j].css) } }

Settled(d) == [st |-> "ok", dom |-> d]
Rejected(d) == [st |-> "throw", dom |-> d]
\* The task's promise stays pending for ever.
Hung(d) == [st |-> "loop", dom |-> d]

\* The stylesheet-link task (lines 451-460).
LinkTask(t, d, i) ==
  Let(resolveZipPath(HtmlDir(i), t.snap.src), LAMBDA resourcePath :
  Let(FileOrDecoded(resourcePath), LAMBDA cssFile :
    IF cssFile.st = "throw" THEN Rejected(d)
    ELSE IF cssFile.st = "null" THEN Settled(d)
    ELSE Let(substituteCssUrls(CssOf(cssFile.path), PosixDirname(resourcePath)), LAMBDA sub :
         IF sub.st = "throw" THEN Rejected(d)
         ELSE IF sub.st = "loop" THEN Hung(d)
         ELSE Settled([d EXCEPT !.nodes[t.node] =
                         [Node("style", d.nodes[t.node].loc) EXCEPT !.css = sub.css]]))))

\* The style-block task (lines 468-471).
StyleTask(t, d, i) ==
  Let(substituteCssUrls(t.snap.css, HtmlDir(i)), LAMBDA sub :
      IF sub.st = "throw" THEN Rejected(d)
      ELSE IF sub.st = "loop" THEN Hung(d)
      ELSE Settled([d EXCEPT !.nodes[t.node].css = sub.css]))

\* Array.prototype.find over manifestHrefMap (lines 486-489): the first entry
\* whose href ends with or includes src.
FoundInManifest(src) ==
  SelectSeq(HrefMapEntries, LAMBDA item : EndsWith(item.href, src) \/ Includes(item.href, src))

\* The img src task writing back the element as it was scanned, with the new
\* src, instead of setting the one attribute.
ImgSrcTaskWholeNode(t, d, i) ==
  Let(getResourceDataUri(resolveZipPath(HtmlDir(i), t.snap.src)), LAMBDA dataUri :
    IF dataUri.st = "ok" THEN Settled([d EXCEPT !.nodes[t.node] = [t.snap EXCEPT !.src = dataUri.uri]])
    ELSE Settled(d))

\* The img src task looking the image up and never setting the attribute.
ImgSrcTaskNoWrite(t, d, i) ==
  IF getResourceDataUri(resolveZipPath(HtmlDir(i), t.snap.src)).st = "throw" THEN Rejected(d)
  ELSE Settled(d)

\* The img src task (lines 480-505).
ImgSrcTask(t, d, i) ==
  Let(getResourceDataUri(resolveZipPath(HtmlDir(i), t.snap.src)), LAMBDA dataUri :
    IF dataUri.st = "throw" THEN Rejected(d)
    ELSE IF dataUri.st = "ok" THEN Settled([d EXCEPT !.nodes[t.node].src = dataUri.uri])
    ELSE Let(FoundInManifest(t.snap.src), LAMBDA foundInManifest :
         IF foundInManifest = <<>> THEN Settled(d)
         ELSE Let(getResourceDataUri(resolveZipPath(baseDir, foundInManifest[1].href)), LAMBDA dataUri2 :
              IF dataUri2.st = "throw" THEN Rejected(d)
              ELSE IF dataUri2.st = "ok" THEN Settled([d EXCEPT !.nodes[t.node].src = dataUri2.uri])
              ELSE Settled(d))))

\* entry.split(/\s+/, 2) of a trimmed, non-empty srcset entry: the url and
\* the descriptor (Empty if there is none).
EntryUrl(entry) ==
  IF \A i \in 1..Len(entry) : ~IsSpace(entry[i]) THEN entry
  ELSE SubSeq(entry, 1, (CHOOSE k \in 1..Len(entry) :
                           IsSpace(entry[k]) /\ \A j \in 1..(k-1) : ~IsSpace(entry[j])) - 1)
EntryDescriptor(entry) ==
  LET rest == TrimLeft(SubSeq(entry, Len(EntryUrl(entry)) + 1, Len(entry))) IN
  EntryUrl(rest)

\* srcset.split(",").map(trim).filter(Boolean) (line 511)
SrcsetEntries(srcset) == SelectSeq([k \in 1..Len(SplitOn(srcset, ",")) |-> Trim(SplitOn(srcset, ",")[k])],
                                   LAMBDA e : e # <<>>)

RECURSIVE SrcsetLoop(_, _, _)
\* Lines 515-527 over the entries not yet visited: [st, out] with out the
\* transformed array.
SrcsetLoop(entries, transformed, i) ==
  IF entries = <<>> THEN [st |-> "ok", out |-> transformed]
  ELSE LET entry == Head(entries)
           url   == EntryUrl(entry)
           desc  == EntryDescriptor(entry)
       IN  IF url = <<>> THEN SrcsetLoop(Tail(entries), transformed, i)
           ELSE IF IsData(url) \/ IsHttp(url)
             THEN SrcsetLoop(Tail(entries), Append(transformed, entry), i)
           ELSE Let(getResourceDataUri(resolveZipPath(HtmlDir(i), url)), LAMBDA r :
                IF r.st = "throw" THEN [st |-> "throw", out |-> transformed]
                ELSE IF r.st = "ok"
                  THEN SrcsetLoop(Tail(entries),
                                  Append(transformed,
                                         IF desc = <<>> THEN r.uri ELSE r.uri \o <<" ">> \o desc), i)
                ELSE SrcsetLoop(Tail(entries), transformed, i))

\* The img srcset task (lines 513-531).
SrcsetTask(t, d, i) ==
  Let(SrcsetLoop(SrcsetEntries(t.snap.srcset), <<>>, i), LAMBDA res :
      IF res.st = "throw" THEN Rejected(d)
      ELSE IF res.out = <<>> THEN Settled(d)
      ELSE Settled([d EXCEPT !.nodes[t.node].srcset = JoinWith(res.out, <<",", " ">>)]))

\* The SVG image task (lines 543-556); the two attributes are read from the
\* element as it is when the task resumes.
ImageTask(t, d, i) ==
  Let(getResourceDataUri(resolveZipPath(HtmlDir(i), IF t.snap.src # Empty THEN t.snap.src
                                                    ELSE t.snap.xlink)), LAMBDA dataUri :
  Let(d.nodes[t.node], LAMBDA live :
      IF dataUri.st = "throw" THEN Rejected(d)
      ELSE IF dataUri.st = "ok"
        THEN Settled([d EXCEPT !.nodes[t.node] =
                        [live EXCEPT !.src   = IF live.src # Empty THEN dataUri.uri ELSE live.src,
                                     !.xlink = IF live.xlink # Empty THEN dataUri.uri ELSE live.xlink]])
      ELSE Settled(d)))

RECURSIVE AttrLoop(_, _, _)
\* Lines 571-581 over the url matches not yet visited.
AttrLoop(matches, updated, i) ==
  IF matches = <<>> THEN [st |-> "ok", css |-> updated]
  ELSE LET rawRef == Head(matches).ref IN
       IF rawRef = Empty \/ IsData(rawRef) \/ IsHttp(rawRef) THEN AttrLoop(Tail(matches), updated, i)
       ELSE Let(getResourceDataUri(resolveZipPath(HtmlDir(i), rawRef)), LAMBDA r :
            IF r.st = "throw" THEN [st |-> "throw", css |-> updated]
            ELSE IF r.st = "ok" THEN AttrLoop(Tail(matches), ReplaceFirstUrl(updated, rawRef, r.uri), i)
            ELSE AttrLoop(Tail(matches), updated, i))

\* The style-attribute task (lines 569-583).
AttrTask(t, d, i) ==
  Let(AttrLoop(UrlMatches(t.snap.css), t.snap.css, i), LAMBDA res :
      IF res.st = "throw" THEN Rejected(d)
      ELSE Settled([d EXCEPT !.nodes[t.node].css = res.css]))

\* What the settling of task t does to document d of spine item i.
RunTask(t, d, i) ==
  CASE t.kind = "link"   -> LinkTask(t, d, i)
    [] t.kind = "style"  -> StyleTask(t, d, i)
    [] t.kind = "src"    -> ImgSrcTask(t, d, i)
    [] t.kind = "srcset" -> SrcsetTask(t, d, i)
    [] t.kind = "image"  -> ImageTask(t, d, i)
    [] t.kind = "attr"   -> AttrTask(t, d, i)

(***************************************************************************)
(* Chapter extraction (lines 591-777)                                      *)
(***************************************************************************)

\* The plain-text threshold of the front-matter filter (line 752).
FrontMatterLimit == 120

\* The decimal numeral of a spine position, for `Chapter ${index + 1}`.
NumStr == <<"1", "2", "3", "4", "5", "6">>

\* title.toLowerCase(), word by word.
LowerWord(w) ==
  CASE w = "Table"     -> "table"
    [] w = "Contents"  -> "contents"
    [] w = "COPYRIGHT" -> "copyright"
    [] w = "Title"     -> "title"
    [] w = "Page"      -> "page"
    [] w = "Cover"     -> "cover"
    [] w = "COVER"     -> "cover"
    [] w = "Chapter"   -> "chapter"
    [] w = "One"       -> "one"
    [] w = "Introduction" -> "introduction"
    [] OTHER           -> w

LowerTitle(title) == [i \in 1..Len(title) |-> LowerWord(title[i])]

\* The front-matter test on the title as written, without toLowerCase().
IsFrontMatterCaseSensitive(title) ==
  \/ Includes(title, <<"contents">>)
  \/ Includes(title, <<"table">>)
  \/ Includes(title, <<"cover">>)
  \/ Includes(title, <<"title", " ", "page">>)
  \/ Includes(title, <<"copyright">>)
  \/ Includes(title, <<"introduction">>)

\* isFrontMatter (lines 721-727)
IsFrontMatter(title) ==
  LET lowerTitle == LowerTitle(title) IN
  \/ Includes(lowerTitle, <<"contents">>)
  \/ Includes(lowerTitle, <<"table">>)
  \/ Includes(lowerTitle, <<"cover">>)
  \/ Includes(lowerTitle, <<"title", " ", "page">>)
  \/ Includes(lowerTitle, <<"copyright">>)
  \/ Includes(lowerTitle, <<"introduction">>)

\* The text of the first element matching Test, trimmed; Empty if none.
FirstText(nodes, Test(_)) ==
  LET hits == SelectSeq(nodes, Test) IN
  IF hits = <<>> THEN <<>> ELSE Trim(hits[1].text)

\* The title with the classed element looked at before the <title>.
DocTitleClassFirst(d, i) ==
  LET t1 == FirstText(d.nodes, LAMBDA n : n.tag = "title")
      t2 == FirstText(d.nodes, LAMBDA n : n.cls)
  IN  IF t2 # <<>> THEN t2
      ELSE IF t1 # <<>> THEN t1
      ELSE <<"Chapter", " ", NumStr[i + 1]>>

\* title of lines 610-613
DocTitle(d, i) ==
  LET t1 == FirstText(d.nodes, LAMBDA n : n.tag = "title")
      t2 == FirstText(d.nodes, LAMBDA n : n.cls)
  IN  IF t1 # <<>> THEN t1
      ELSE IF t2 # <<>> THEN t2
      ELSE <<"Chapter", " ", NumStr[i + 1]>>

\* html.trim().length === 0 for the serialization of a node list: markup of
\* any element is text, so only whitespace text nodes serialize to nothing.
Blank(nodes) == \A k \in 1..Len(nodes) : nodes[k].tag = "#text" /\ Trim(nodes[k].text) = <<>>

\* $("body").html()
BodyNodes(d) == SelectSeq(d.nodes, LAMBDA n : n.loc = "body")

\* A serialization: the nodes it holds, and whether the html/head/body
\* wrapper is part of the string ($.html(), $.root().html()).
Html(wrap, nodes) == [wrap |-> wrap, nodes |-> nodes]
BlankHtml(h) == ~h.wrap /\ Blank(h.nodes)

\* bodyHtml of lines 617-656: the body's inner HTML; when that is blank the
\* <body> match of line 630 is blank too, and the fallback of lines 651-654
\* takes the whole document.
BodyHtml(d) ==
  IF ~Blank(BodyNodes(d)) THEN Html(FALSE, BodyNodes(d))
  ELSE Html(TRUE, d.nodes)

\* The strings an element serializes its references into.
RefStrings(n) ==
  {n.src, n.xlink, n.srcset} \cup {n.css[k].ref : k \in {j \in 1..Len(n.css) : n.css[j].k # "text"}}

\* content.includes("<script") || content.includes("javascript:") (line 693)
MentionsScript(nodes) ==
  \E k \in 1..Len(nodes) :
     \/ nodes[k].tag = "script"
     \/ \E str \in RefStrings(nodes[k]) : Includes(str, <<"javascript:">>)
     \/ Includes(nodes[k].text, <<"javascript:">>)

\* content.includes("data:image") (line 741)
HasDataImage(nodes) ==
  \E k \in 1..Len(nodes) : \E str \in RefStrings(nodes[k]) :
     \E j \in 1..(Len(str) - 1) : str[j] = "data:" /\ IsImageType(str[j + 1])

\* The cleanup of lines 695-699 on the visual path.
CleanVisual(nodes) ==
  LET noScript == SelectSeq(nodes, LAMBDA n : n.tag # "script")
  IN  [k \in 1..Len(noScript) |-> [noScript[k] EXCEPT !.on = FALSE]]

\* The properties sanitizeOptions.allowedStyles lets through (lines 107-157),
\* among those the inputs use.
AllowedStyleProps == {"background-image:", "color:", "width:"}

\* allowedSchemes (line 158) applied to href and src: a value with a scheme
\* is kept only for http, https, mailto, tel and data.
SchemeAllowed(ref) ==
  ref = Empty \/ IsHttp(ref) \/ IsData(ref) \/ ref[1] \in {"mailto:", "tel:"}
  \/ ~(ref[1] \in {"javascript:", "file:", "JAVASCRIPT:"})

\* sanitizeHtml on the style attribute: a declaration is kept when its
\* property is allowed.  The style attributes of the inputs hold one
\* declaration.
SanitizeStyle(css) ==
  IF css # <<>> /\ css[1].k = "text" /\ css[1].ref[1] \in AllowedStyleProps THEN css ELSE <<>>

\* sanitizeHtml(bodyHtml, sanitizeOptions) on one element: <<>> when nothing
\* of it is left, else the one node left.
SanitizeNode(n) ==
  IF n.tag \in {"script", "style"} THEN <<>>
  ELSE IF n.tag \in {"title", "link", "meta", "#text"}
    THEN (IF n.len = 0 THEN <<>> ELSE <<[Node("#text", n.loc) EXCEPT !.text = n.text, !.len = n.len]>>)
  ELSE IF n.tag = "img" THEN <<>>
  ELSE <<[n EXCEPT !.on = FALSE,
                   !.src = IF SchemeAllowed(n.src) /\ n.tag \in {"a", "image"} THEN n.src ELSE Empty,
                   !.xlink = IF n.tag = "image" THEN n.xlink ELSE Empty,
                   !.srcset = Empty,
                   !.css = SanitizeStyle(n.css)]>>

RECURSIVE SanitizeNodes(_)
SanitizeNodes(nodes) ==
  IF nodes = <<>> THEN <<>> ELSE SanitizeNode(Head(nodes)) \o SanitizeNodes(Tail(nodes))

\* sanitizeHtml(bodyHtml, sanitizeOptions): html, head and body are not
\* allowed tags, so the wrapper goes.
sanitizeHtml(h) == Html(FALSE, SanitizeNodes(h.nodes))

\* The visual test without its background-image part.
HasVisualNoBackground(nodes) ==
  \E k \in 1..Len(nodes) : IsImg(nodes[k]) \/ IsSvg(nodes[k])

\* hasVisualContentBeforeSanitize (line 669) and hasVisualContent (line 732)
HasVisual(nodes) ==
  \E k \in 1..Len(nodes) : IsImg(nodes[k]) \/ IsSvg(nodes[k]) \/ HasBackgroundImage(nodes[k])

\* content of lines 666-706
Content(d) ==
  IF HasVisual(d.nodes)
    THEN Let(BodyNodes(d), LAMBDA body :
             IF MentionsScript(body) THEN Html(TRUE, CleanVisual(body)) ELSE Html(FALSE, body))
  ELSE sanitizeHtml(BodyHtml(d))

RECURSIVE SumLen(_)
SumLen(nodes) == IF nodes = <<>> THEN 0 ELSE Head(nodes).len + SumLen(Tail(nodes))

\* Array.prototype.unshift in the place of push.
Unshift(array, element) == <<element>> \o array

\* chapters.push(element) (line 773)
Push(array, element) == Append(array, element)

\* The loop body without the `continue` of line 710: an item of empty
\* content is pushed like any other.
ExtractKeepEmpty(d, i) ==
  Let(Content(d), LAMBDA content0 :
  Let(FirstText(content0.nodes, LAMBDA n : n.tag \in {"h1", "h2", "h3"}), LAMBDA headingTitle :
  Let(IF headingTitle # <<>> THEN headingTitle ELSE DocTitle(d, i), LAMBDA title :
    IF SumLen(content0.nodes) < FrontMatterLimit /\ IsFrontMatter(title)
       /\ ~HasVisual(content0.nodes) /\ ~BlankHtml(content0)
      THEN [keep |-> FALSE, title |-> title, content |-> content0]
    ELSE [keep |-> TRUE, title |-> title, content |-> content0])))

\* The rest of the loop body for a document whose tasks have all settled
\* (lines 591-777): [keep, title, content]; keep is FALSE for the two
\* `continue`s of lines 710 and 754.
Extract(d, i) ==
  Let(Content(d), LAMBDA content0 :
  Let(FirstText(content0.nodes, LAMBDA n : n.tag \in {"h1", "h2", "h3"}), LAMBDA headingTitle :
  Let(IF headingTitle # <<>> THEN headingTitle ELSE DocTitle(d, i), LAMBDA title :
  Let(\E k \in 1..Len(content0.nodes) : IsImg(content0.nodes[k]), LAMBDA hasImages :
  Let(IF Len(Select(d, IsImg)) > 0 /\ ~hasImages /\ HasDataImage(BodyNodes(d))
        THEN Html(FALSE, BodyNodes(d)) ELSE content0, LAMBDA content :
    IF BlankHtml(content0) THEN [keep |-> FALSE, title |-> title, content |-> content0]
    ELSE IF SumLen(content0.nodes) < FrontMatterLimit /\ IsFrontMatter(title)
            /\ ~HasVisual(content0.nodes)
      THEN [keep |-> FALSE, title |-> title, content |-> content]
    ELSE [keep |-> TRUE, title |-> title, content |-> content])))))

(***************************************************************************)
(* Cover and metadata (lines 779-815)                                      *)
(***************************************************************************)

\* Array.prototype.find: the first element satisfying Test, as a sequence of
\* at most one element.
Find(seq, Test(_)) ==
  LET hits == SelectSeq(seq, Test) IN IF hits = <<>> THEN <<>> ELSE <<hits[1]>>

\* coverId.trim(), for an id.
TrimWord(w) == CASE w = " cov " -> "cov" [] w = " " -> "" [] OTHER -> w

\* coverId of lines 779-783
coverId ==
  LET tag == Find(opf.meta, LAMBDA m : LowerWord(m.name) = "cover" \/ LowerWord(m.property) = "cover")
  IN  TrimWord(IF tag # <<>> /\ tag[1].content # "" THEN tag[1].content ELSE opf.coverText)

\* coverItem of lines 785-788
coverItem ==
  Let(IF coverId = "" THEN <<>> ELSE Find(manifest, LAMBDA item : item.id = coverId), LAMBDA byId :
  Let(Find(manifest, LAMBDA item : Includes(item.properties, <<"cover-image">>)), LAMBDA byProp :
      IF byId # <<>> THEN byId
      ELSE IF byProp # <<>> THEN byProp
      ELSE Find(manifest, LAMBDA item : IsImageType(item.mediaType))))

\* The cover with its media type always taken from the file extension.
CoverImageByExtension ==
  Let(coverItem, LAMBDA item :
    IF item = <<>> \/ item[1].href = Empty THEN [st |-> "ok", uri |-> Empty]
    ELSE Let(resolveZipPath(baseDir, item[1].href), LAMBDA coverPath :
         Let(FileOrDecoded(coverPath), LAMBDA coverFile :
           IF coverFile.st = "throw" THEN [st |-> "throw", uri |-> Empty]
           ELSE IF coverFile.st = "null" THEN [st |-> "ok", uri |-> Empty]
           ELSE [st  |-> "ok",
                 uri |-> DataUri(detectMimeFromExt(coverPath), File(coverFile.path).b64)])))

\* Lines 790-800: [st |-> "ok", uri] with uri Empty when coverImage stays
\* undefined, or [st |-> "throw"] for the URIError of line 794.
CoverImage ==
  Let(coverItem, LAMBDA item :
    IF item = <<>> \/ item[1].href = Empty THEN [st |-> "ok", uri |-> Empty]
    ELSE Let(resolveZipPath(baseDir, item[1].href), LAMBDA coverPath :
         Let(FileOrDecoded(coverPath), LAMBDA coverFile :
           IF coverFile.st = "throw" THEN [st |-> "throw", uri |-> Empty]
           ELSE IF coverFile.st = "null" THEN [st |-> "ok", uri |-> Empty]
           ELSE [st  |-> "ok",
                 uri |-> DataUri(IF item[1].mediaType # "" THEN item[1].mediaType
                                 ELSE detectMimeFromExt(coverPath),
                                 File(coverFile.path).b64)])))

\* fallbackTitle.replace(/\.epub$/i, "")
StripEpub(name) ==
  IF name # <<>> /\ name[Len(name)] \in {".epub", ".EPUB"} THEN SubSeq(name, 1, Len(name) - 1) ELSE name

\* title of lines 802-805
BookTitle(fallbackTitle) == IF opf.title # Empty THEN opf.title ELSE StripEpub(fallbackTitle)

(***************************************************************************)
(* Inputs: the archives the request is run on.                             *)
(***************************************************************************)

\* Sequences over S of length at most n.
SeqUpTo(S, n) == UNION {[1..k -> S] : k \in 0..n}

Path(dir, name) == dir \o <<"/", name>>
TextDir == <<"OEBPS", "/", "text">>
ImgDir == <<"OEBPS", "/", "img">>
CssDir == <<"OEBPS", "/", "css">>

\* References as a content document under OEBPS/text writes them.
RefA == <<"..", "/", "img", "/", "a.png">>
RefB == <<"..", "/", "img", "/", "b.jpg", "#", "frag">>
RefMissing == <<"..", "/", "img", "/", "missing.png">>
RefBad == <<"..", "/", "img", "/", "bad%zz.png">>
RefHttp == <<"http://", "host", "/", "a.png">>
RefHttps == <<"HTTPS://", "host", "/", "b.png">>
RefData == <<"data:", "image/gif", ";base64", ",", "R0lG">>
RefJs == <<"javascript:", "alert(1)">>
RefCssS == <<"..", "/", "css", "/", "s.css">>
RefCssT == <<"..", "/", "css", "/", "t.css">>
RefCssU == <<"..", "/", "css", "/", "u.css">>
RefCssMissing == <<"..", "/", "css", "/", "missing.css">>
RefCssLoop == <<"..", "/", "css", "/", "loop.css">>
RefCssP == <<"..", "/", "css", "/", "p.css">>

\* The stylesheets of the archive: s.css names an image, t.css imports s.css
\* by string and names a missing image, u.css imports s.css by url().
CssS == <<CssText("body{}"), CssUrl(RefA)>>
CssT == <<CssImport(<<"s.css">>), CssUrl(RefMissing), CssUrl(RefHttp)>>
CssU == <<CssImportUrl(<<"s.css">>)>>
\* loop.css imports itself; p.css and q.css import each other.
CssLoop == <<CssText("p{}"), CssImport(<<"loop.css">>)>>
CssP == <<CssImport(<<"q.css">>)>>
CssQ == <<CssImport(<<"p.css">>), CssUrl(RefA)>>

ZipFile(kind, data, b64) == [kind |-> kind, data |-> data, b64 |-> b64, empty |-> FALSE]

\* The resources of every archive, as <<path, entry>> pairs.
ResourceEntries ==
  { <<Path(ImgDir, "a.png"), ZipFile("bin", <<>>, "QQ==")>>,
    <<Path(ImgDir, "b.jpg"), ZipFile("bin", <<>>, "Qg==")>>,
    <<Path(CssDir, "s.css"), ZipFile("css", CssS, "cy5jc3M=")>>,
    <<Path(CssDir, "t.css"), ZipFile("css", CssT, "dC5jc3M=")>>,
    <<Path(CssDir, "u.css"), ZipFile("css", CssU, "dS5jc3M=")>>,
    <<Path(CssDir, "loop.css"), ZipFile("css", CssLoop, "bG9vcA==")>>,
    <<Path(CssDir, "p.css"), ZipFile("css", CssP, "cC5jc3M=")>>,
    <<Path(CssDir, "q.css"), ZipFile("css", CssQ, "cS5jc3M=")>> }

Item(id, href, mediaType, properties) ==
  [id |-> id, href |-> href, mediaType |-> mediaType, properties |-> properties]

\* Their manifest items; b.jpg is in the archive and not in the manifest.
ResourceItems ==
  << Item("css-s", <<"css", "/", "s.css">>, "text/css", <<>>),
     Item("img-a", <<"img", "/", "a.png">>, "image/png", <<>>) >>

\* Elements of content documents.
P(len) == [Node("p", "body") EXCEPT !.text = <<"words">>, !.len = len]
H1(title, len) == [Node("h1", "body") EXCEPT !.text = title, !.len = len]
Title(title, len) == [Node("title", "head") EXCEPT !.text = title, !.len = len]
Script == Node("script", "body")
A(href) == [Node("a", "body") EXCEPT !.src = href, !.text = <<"link">>, !.len = 4]
Img(src) == [Node("img", "body") EXCEPT !.src = src]
ImgSet(srcset) == [Node("img", "body") EXCEPT !.srcset = srcset]
Image(href, xlink) == [Node("image", "body") EXCEPT !.src = href, !.xlink = xlink]
Link(loc, href) == [Node("link", loc) EXCEPT !.src = href]
Style(loc, css) == [Node("style", loc) EXCEPT !.css = css]
Styled(prop, ref) == [Node("div", "body") EXCEPT !.css = <<CssText(prop), CssUrl(ref)>>]
Classed(text, len) == [Node("div", "body") EXCEPT !.cls = TRUE, !.text = text, !.len = len]

TableOfContents == <<"Table", " ", "of", " ", "Contents">>
ChapterOne == <<"Chapter", " ", "One">>

\* The documents the spine-level archives draw their chapters from.
DocPlain == [nodes |-> <<H1(ChapterOne, 11), P(200)>>]
DocEmpty == [nodes |-> <<>>]
DocScriptOnly == [nodes |-> <<Script>>]
DocFront == [nodes |-> <<H1(TableOfContents, 17), P(23)>>]
DocFrontImg == [nodes |-> <<H1(TableOfContents, 17), P(23), Img(RefA)>>]
DocHeadTitle == [nodes |-> <<Title(ChapterOne, 11)>>]
DocBare == [nodes |-> <<P(200)>>]
SpineDocs == {DocPlain, DocEmpty, DocScriptOnly, DocFront, DocFrontImg, DocHeadTitle, DocBare}

\* srcset values: an archive image, a missing one and an absolute URL; one
\* data: URI.
SrcsetMixed ==
  RefA \o <<" ", "1x", ",", " ">> \o RefMissing \o <<" ", "2x", ",">> \o RefHttps \o <<" ", "3x">>
SrcsetData == RefData \o <<" ", "1x">>

\* The elements the chapter-level documents are made of, by what they
\* exercise: image references, stylesheets and style attributes, scripting,
\* the front-matter filter (titles, and texts around its threshold),
\* stylesheets that import themselves or each other, the sources of a
\* chapter's title.
\* A paragraph and an archive image are in each, so that each is seen in
\* text and in visual chapters.
ImageElements ==
  { P(200),
    Img(RefA),
    Img(RefMissing),
    Img(RefBad),
    Img(RefHttp),
    [Img(RefB) EXCEPT !.srcset = SrcsetMixed],
    ImgSet(SrcsetData),
    Image(RefA, RefA),
    Image(Empty, RefMissing),
    Image(RefHttp, RefA) }
StyleElements ==
  { P(200),
    Img(RefA),
    Link("head", RefCssS),
    Link("body", RefCssT),
    Link("body", RefCssU),
    Link("head", RefHttp),
    Style("body", <<CssUrl(RefB), CssUrl(RefData), CssImport(RefCssMissing)>>),
    [Styled("background-image:", RefA) EXCEPT !.css = @ \o <<CssUrl(RefMissing)>>],
    Styled("background:", RefA) }
ScriptElements ==
  { P(200),
    Img(RefA),
    Script,
    A(RefJs),
    [Img(RefData) EXCEPT !.on = TRUE] }
FrontElements ==
  { H1(TableOfContents, 17),
    H1(<<"COPYRIGHT">>, 9),
    H1(ChapterOne, 11),
    P(23),
    P(102),
    P(103),
    Img(RefA),
    Styled("background-image:", RefA) }
ImportElements ==
  { P(200),
    Link("body", RefCssLoop),
    Link("body", RefCssP),
    Link("body", RefCssT),
    Style("body", <<CssImport(RefCssLoop)>>) }
TitleElements ==
  { P(200),
    Img(RefA),
    H1(ChapterOne, 11),
    H1(<<" ">>, 1),
    Title(<<"Head">>, 4),
    Title(<<" ">>, 1),
    Classed(<<"Sub">>, 3),
    Classed(Empty, 0) }
ElementTemplates ==
  {ImageElements, StyleElements, ScriptElements, FrontElements, ImportElements, TitleElements}

\* Chapter-level documents: every sequence of at most MaxElems elements of
\* one kind.
RichDocs ==
  {[nodes |-> elems] : elems \in UNION {SeqUpTo(kind, MaxElems) : kind \in ElementTemplates}}

\* The values of an itemref's linear attribute: absent, a string, or the
\* boolean true the XML parser gives an attribute written without a value.
Linear(type, value) == [type |-> type, value |-> value]
LinearAbsent == Linear("undefined", <<>>)
LinearValues ==
  {LinearAbsent, Linear("boolean", <<>>), Linear("string", <<"n", "o">>),
   Linear("string", <<"N", "O">>), Linear("string", <<"N", "o">>),
   Linear("string", <<"y", "e", "s">>), Linear("string", <<"n", "o", "n", "e">>)}

\* How a spine slot is declared: "ok", or the one thing wrong with it.
EntryKinds ==
  {"ok", "noIdref", "noManifest", "image", "noType", "noHref", "missing", "encoded", "malformed"}

Slot(entry, linear, doc) == [entry |-> entry, linear |-> linear, doc |-> doc]

\* The slots a spine is drawn from, by what varies: a sound slot with each
\* document, with each linear value, and each unsound declaration.
SpineSlots ==
  { {Slot("ok", LinearAbsent, doc) : doc \in SpineDocs},
    {Slot("ok", linear, DocPlain) : linear \in LinearValues},
    {Slot(entry, LinearAbsent, DocPlain) : entry \in EntryKinds} }

\* Every spine of at most n slots of one kind.
Spines(n) == UNION {SeqUpTo(kind, n) : kind \in SpineSlots}

SlotId == <<"c1", "c2", "c3", "c4">>
SlotName == <<"c1.xhtml", "c2.xhtml", "c3.xhtml", "c4.xhtml">>

\* The href the manifest gives slot k.
SlotHref(slot, k) ==
  CASE slot.entry = "noHref"    -> Empty
    [] slot.entry = "encoded"   -> <<"text", "/", "ch%20x.xhtml">>
    [] slot.entry = "malformed" -> <<"text", "/", "bad%zz.xhtml">>
    [] OTHER                    -> <<"text", "/", SlotName[k]>>

SlotItemRef(slot, k) ==
  [idref |-> CASE slot.entry = "noIdref" -> "" [] slot.entry = "noManifest" -> "nowhere" [] OTHER -> SlotId[k],
   linear |-> slot.linear]

SlotItem(slot, k) ==
  Item(SlotId[k], SlotHref(slot, k),
       CASE slot.entry = "image" -> "image/jpeg" [] slot.entry = "noType" -> "" [] OTHER -> "application/xhtml+xml",
       <<>>)

\* The archive entry of slot k, if it has one.
SlotEntries(slot, k) ==
  CASE slot.entry \in {"missing", "malformed", "noHref"} -> {}
    [] slot.entry = "encoded" -> {<<Path(TextDir, "ch x.xhtml"), ZipFile("doc", slot.doc, "ZG9j")>>}
    [] OTHER -> {<<Path(TextDir, SlotName[k]), ZipFile("doc", slot.doc, "ZG9j")>>}

\* How the package declares its cover.  Without a declaration the first
\* image of the manifest (a.png) is the only candidate.  "cov" is the item a
\* cover meta tag names, "pic" an item with the cover-image property.
\*   meta          a meta tag names cov, whose file is there
\*   missing       ... whose file is missing
\*   malformed     ... whose file is missing under a name that cannot be
\*                 percent-decoded
\*   encoded       ... whose file is there under the decoded name
\*   noType        ... which declares no media type
\*   mistyped      ... which declares a type its extension does not have
\*   property      no meta tag; pic
\*   all           a meta tag names cov; pic
\*   metaProperty  a meta tag with property="cover" names cov; pic
\*   upper         a meta tag with name="COVER" names cov; pic
\*   dangling      a meta tag names no item; pic
\*   danglingImage a meta tag names no item
\*   two           a meta tag names no item, a second one names cov; pic
\*   element       no meta tag, a <cover> element of the metadata names cov;
\*                 pic
CoverKinds ==
  {"image", "meta", "missing", "malformed", "encoded", "noType", "mistyped", "property", "all",
   "metaProperty", "upper", "dangling", "danglingImage", "two", "element", "padded"}

CoverPic == Item("pic", <<"img", "/", "cover.jpg">>, "image/jpeg", <<"cover-image">>)

CoverItems(cover) ==
  CASE cover \in {"image", "danglingImage"} -> <<>>
    [] cover = "meta"      -> <<Item("cov", <<"img", "/", "b.jpg">>, "image/jpeg", <<>>)>>
    [] cover = "missing"   -> <<Item("cov", <<"img", "/", "cover.jpg">>, "image/jpeg", <<>>)>>
    [] cover = "malformed" -> <<Item("cov", <<"img", "/", "100%.jpg">>, "image/jpeg", <<>>)>>
    [] cover = "encoded"   -> <<Item("cov", <<"img", "/", "a%20b.png">>, "image/png", <<>>)>>
    [] cover = "noType"    -> <<Item("cov", <<"img", "/", "b.jpg">>, "", <<>>)>>
    [] cover = "mistyped"  -> <<Item("cov", <<"img", "/", "b.jpg">>, "image/png", <<>>)>>
    [] cover \in {"property", "dangling"} -> <<CoverPic>>
    [] OTHER -> <<CoverPic, Item("cov", <<"img", "/", "b.jpg">>, "image/jpeg", <<>>)>>

CoverTag(name, property, content) == [name |-> name, property |-> property, content |-> content]

CoverMeta(cover) ==
  CASE cover \in {"image", "property", "element"} -> <<>>
    [] cover = "metaProperty" -> <<CoverTag("", "cover", "cov")>>
    [] cover = "upper" -> <<CoverTag("COVER", "", "cov")>>
    [] cover = "padded" -> <<CoverTag("cover", "", " cov ")>>
    [] cover \in {"dangling", "danglingImage"} -> <<CoverTag("cover", "", "nowhere")>>
    [] cover = "two" -> <<CoverTag("cover", "", "nowhere"), CoverTag("cover", "", "cov")>>
    [] OTHER -> <<CoverTag("cover", "", "cov")>>

\* The text of a <cover> element of the metadata.
CoverText(cover) == IF cover = "element" THEN "cov" ELSE ""

\* The archive entries the cover declaration comes with.
CoverEntries(cover) ==
  CASE cover \in {"property", "all", "metaProperty", "upper", "dangling", "two", "element",
                  "padded"} ->
         {<<Path(ImgDir, "cover.jpg"), ZipFile("bin", <<>>, "Q292")>>}
    [] cover = "encoded" -> {<<Path(ImgDir, "a b.png"), ZipFile("bin", <<>>, "YSBi")>>}
    [] OTHER -> {}

\* How the archive is put together: "ok", or the one thing wrong with it.
StructureKinds ==
  {"ok", "notZip", "noContainer", "emptyContainer", "noRootPath", "noOpf", "emptyOpf",
   "garbledContainer", "noContainerNoOpf"}

\* The package document of an archive.
OpfOf(slots, cover) ==
  [manifest    |-> [k \in 1..Len(slots) |-> SlotItem(slots[k], k)] \o ResourceItems \o CoverItems(cover),
   spine       |-> [k \in 1..Len(slots) |-> SlotItemRef(slots[k], k)],
   meta        |-> CoverMeta(cover),
   coverText   |-> CoverText(cover),
   title       |-> IF cover = "meta" THEN <<"A", " ", "Book">> ELSE Empty,
   author      |-> Empty,
   description |-> Empty]

\* The archive with the given spine slots, cover declaration and structure.
ArchiveOf(slots, cover, structure) ==
  LET containerEntries ==
        CASE structure \in {"noContainer", "noContainerNoOpf"} -> {}
          [] structure = "garbledContainer" ->
               {<<ContainerPath, ZipFile("garbled", Empty, "PGNvbnQ=")>>}
          [] structure = "emptyContainer" ->
               {<<ContainerPath, [ZipFile("container", Empty, "") EXCEPT !.empty = TRUE]>>}
          [] structure = "noRootPath" -> {<<ContainerPath, ZipFile("container", Empty, "eG1s")>>}
          [] OTHER -> {<<ContainerPath, ZipFile("container", OpfPath, "eG1s")>>}
      opfEntries ==
        CASE structure \in {"noOpf", "noContainerNoOpf"} -> {}
          [] structure = "emptyOpf" ->
               {<<OpfPath, [ZipFile("opf", OpfOf(slots, cover), "") EXCEPT !.empty = TRUE]>>}
          [] OTHER -> {<<OpfPath, ZipFile("opf", OpfOf(slots, cover), "b3Bm")>>}
      entries ==
        containerEntries \cup opfEntries \cup ResourceEntries \cup CoverEntries(cover)
        \cup UNION {SlotEntries(slots[k], k) : k \in 1..Len(slots)}
  IN  [ok    |-> structure # "notZip",
       files |-> [p \in {e[1] : e \in entries} |-> (CHOOSE e \in entries : e[1] = p)[2]]]

\* Spine-level archives: every spine of at most MaxSpine slots; every cover
\* declaration and every unsound structure around a spine of at most one.
SpineArchives ==
       {ArchiveOf(slots, "image", "ok") : slots \in Spines(MaxSpine)}
  \cup {ArchiveOf(slots, cover, "ok") : slots \in Spines(1), cover \in CoverKinds}
  \cup {ArchiveOf(slots, "image", structure) :
          slots \in SeqUpTo({Slot("ok", LinearAbsent, DocPlain)}, 1), structure \in StructureKinds}

\* Chapter-level archives: one spine item holding each chapter-level document.
ChapterArchives == {ArchiveOf(<<Slot("ok", LinearAbsent, doc)>>, "image", "ok") : doc \in RichDocs}

\* The file name the request carries.
FileName == <<"book", ".epub">>

(***************************************************************************)
(* The import request: POST of the import route, with parseEpub inlined    *)
(* where the route awaits it.                                              *)
(***************************************************************************)

\* The answers the route gives before it parses anything (route.ts lines
\* 11-13, 23-28, 33-38, 82-84, 88-93, 95-100).
Refusals ==
  {"Unauthorized", "key and filename are required.", "Failed to download EPUB from storage.",
   "No EPUB provided.", "File too large. Maximum size is 4MB.",
   "Invalid file type. Please upload an EPUB file."}

Fail(msg) ==
  /\ pc' = "failed"
  /\ error' = msg
  /\ UNCHANGED <<zip, index, chapters, origin, dom, tasks, parsed, db, call, hookVars>>

\* The request arrives (route.ts lines 9-42, 79-103): it is refused, or the
\* bytes it names are read and handed to parseEpub.
Receive ==
  /\ pc = "request"
  /\ \/ \E answer \in Refusals : Fail(answer)
     \/ \E archive \in SpineArchives \cup ChapterArchives :
          /\ zip' = archive
          /\ pc' = "open"
          /\ UNCHANGED <<index, chapters, origin, dom, tasks, error, parsed, db, call, hookVars>>

\* The structural checks with the container check left out: the parse of
\* an undefined container yields no root-file path.
OpenErrorNoContainerCheck ==
  IF ~zip.ok THEN "Can't find end of central directory : is this a zip file ?"
  ELSE IF ~HasFile(ContainerPath) \/ File(ContainerPath).empty \/ rootFilePath = Empty
    THEN "Invalid EPUB: missing manifest path."
  ELSE IF ~HasFile(rootFilePath) \/ File(rootFilePath).empty
    THEN "Invalid EPUB: missing package definition."
  ELSE "none"

\* The error parseEpub throws before the spine loop (lines 257-275), or
\* "none".
OpenError ==
  IF ~zip.ok THEN "Can't find end of central directory : is this a zip file ?"
  ELSE IF ~HasFile(ContainerPath) \/ File(ContainerPath).empty
    THEN "Invalid EPUB: missing container."
  ELSE IF rootFilePath = Empty THEN "Invalid EPUB: missing manifest path."
  ELSE IF ~HasFile(rootFilePath) \/ File(rootFilePath).empty
    THEN "Invalid EPUB: missing package definition."
  ELSE "none"

\* container.xml holds text that is not well-formed XML.
ContainerGarbled ==
  zip.ok /\ HasFile(ContainerPath) /\ File(ContainerPath).kind = "garbled"

\* parseEpub up to the spine loop (lines 257-293).  Of text that is not
\* well-formed, xmlParser.parse (line 264) makes a document without a
\* root-file path, or it throws its own error.
OpenPackage ==
  /\ pc = "open"
  /\ \/ IF OpenError # "none" THEN Fail(OpenError)
        ELSE /\ pc' = "spine"
             /\ index' = 0
             /\ chapters' = <<>>
             /\ origin' = <<>>
             /\ UNCHANGED <<zip, dom, tasks, error, parsed, db, call, hookVars>>
     \/ ContainerGarbled /\ Fail("XML parse error")

\* One pass of the spine loop up to the start of the resource tasks (lines
\* 398-585): the item is skipped, the lookup throws, or its document is
\* loaded, its scripts removed and its tasks started.
WalkItem ==
  /\ pc = "spine"
  /\ index < Len(spine)
  /\ Let(ItemFate(index), LAMBDA fate :
     IF fate = "throw" THEN Fail("URI malformed")
     ELSE IF fate = "skip"
       THEN /\ index' = index + 1
            /\ UNCHANGED <<zip, pc, chapters, origin, dom, tasks, error, parsed, db, call, hookVars>>
     ELSE /\ dom' = LoadAndStripScripts(ItemFile(index).data)
          /\ tasks' = ScanTasks(dom')
          /\ pc' = "inline"
          /\ UNCHANGED <<zip, index, chapters, origin, error, parsed, db, call, hookVars>>)

\* One resource task settles: it writes its result into the document, or it
\* rejects and Promise.all (line 588) rejects parseEpub with it.  A task
\* whose promise stays pending never settles, and Promise.all with it.
SettleTask ==
  /\ pc = "inline"
  /\ \E t \in tasks :
       Let(RunTask(t, dom, index), LAMBDA r :
       IF r.st = "loop" THEN FALSE
       ELSE IF r.st = "throw" THEN Fail("URI malformed")
       ELSE /\ dom' = r.dom
            /\ tasks' = tasks \ {t}
            /\ UNCHANGED <<zip, pc, index, chapters, origin, error, parsed, db, call, hookVars>>)

\* The rest of the loop body run without awaiting the resource tasks.
ExtractItemUnawaited ==
  /\ pc = "inline"
  /\ Let(Extract(dom, index), LAMBDA r :
     /\ chapters' = IF r.keep THEN Push(chapters, [title |-> r.title, content |-> r.content])
                    ELSE chapters
     /\ origin' = IF r.keep THEN Push(origin, index) ELSE origin)
  /\ index' = index + 1
  /\ dom' = NoDom
  /\ pc' = "spine"
  /\ UNCHANGED <<zip, tasks, error, parsed, db, call, hookVars>>

\* After Promise.all: the rest of the loop body (lines 591-777).
ExtractItem ==
  /\ pc = "inline"
  /\ tasks = {}
  /\ Let(Extract(dom, index), LAMBDA r :
     /\ chapters' = IF r.keep THEN Push(chapters, [title |-> r.title, content |-> r.content])
                    ELSE chapters
     /\ origin' = IF r.keep THEN Push(origin, index) ELSE origin)
  /\ index' = index + 1
  /\ dom' = NoDom
  /\ pc' = "spine"
  /\ UNCHANGED <<zip, tasks, error, parsed, db, call, hookVars>>

\* After the loop (lines 779-828).
Finish ==
  /\ pc = "spine"
  /\ index = Len(spine)
  /\ Let(CoverImage, LAMBDA cover :
     IF cover.st = "throw" THEN Fail("URI malformed")
     ELSE IF chapters = <<>> THEN Fail("No readable chapters found.")
     ELSE /\ parsed' = [title |-> BookTitle(FileName), author |-> opf.author,
                        description |-> opf.description, coverImage |-> cover.uri,
                        chapters |-> chapters]
          /\ pc' = "parsed"
          /\ UNCHANGED <<zip, index, chapters, origin, dom, tasks, error, db, call, hookVars>>)

\* The rows numbered from 1.
ChapterRowsOneBased(book, novelId) ==
  [k \in 1..Len(book.chapters) |->
     [novelId |-> novelId, title |-> book.chapters[k].title,
      content |-> book.chapters[k].content, position |-> k]]

\* The rows of tx.chapter.createMany (route.ts lines 56-64).
ChapterRows(book, novelId) ==
  [k \in 1..Len(book.chapters) |->
     [novelId |-> novelId, title |-> book.chapters[k].title,
      content |-> book.chapters[k].content, position |-> k - 1]]

\* tx.novel.create (route.ts lines 45-54) on the transaction's view of the
\* database.
TxNovel(view, book) ==
  [view EXCEPT !.novels = Append(view.novels, [id |-> Len(view.novels) + 1, title |-> book.title,
                                               coverImage |-> book.coverImage])]

\* tx.chapter.createMany (route.ts lines 55-65) for the novel just created.
TxChapters(view, book) ==
  IF Len(book.chapters) > 0
    THEN [view EXCEPT !.chapters = view.chapters \o ChapterRows(book, Len(view.novels))]
    ELSE view

\* The transaction's view when its callback fails at a stage: before the
\* novel is created, between the two writes, or after both (the commit
\* fails, the 120 s timeout expires).
TxStages == {"novel", "chapters", "commit"}
TxView(before, book, stage) ==
  CASE stage = "novel" -> before
    [] stage = "chapters" -> TxNovel(before, book)
    [] OTHER -> TxChapters(TxNovel(before, book), book)

\* The writes stay where the failure left them.
KeepWrites(before, view) == view

\* prisma.$transaction (route.ts lines 44, 73) undoes the writes of a
\* callback that throws.
RollBack(before, view) == before

\* The transaction of route.ts lines 44-73 commits.
Persist ==
  /\ pc = "parsed"
  /\ db' = TxChapters(TxNovel(db, parsed), parsed)
  /\ pc' = "done"
  /\ UNCHANGED <<zip, index, chapters, origin, dom, tasks, error, parsed, call, hookVars>>

\* The transaction fails at some stage and is rolled back; the route answers
\* 500 with the error's message (route.ts lines 137-148).
PersistAbort ==
  /\ pc = "parsed"
  /\ \E stage \in TxStages : db' = RollBack(db, TxView(db, parsed, stage))
  /\ pc' = "failed"
  /\ error' = "Transaction failed"
  /\ UNCHANGED <<zip, index, chapters, origin, dom, tasks, parsed, call, hookVars>>

Next == Receive \/ OpenPackage \/ WalkItem \/ SettleTask \/ ExtractItem \/ Finish \/ Persist \/ PersistAbort

Init ==
  /\ zip = NoZip
  /\ pc = "request"
  /\ index = 0
  /\ chapters = <<>>
  /\ origin = <<>>
  /\ dom = NoDom
  /\ tasks = {}
  /\ error = "none"
  /\ parsed = NoBook
  /\ db = [novels |-> <<>>, chapters |-> <<>>]
  /\ call = NoCall
  /\ tts = Unmounted /\ eleven = Unmounted /\ reader = Unmounted

Spec == Init /\ [][Next]_vars

(***************************************************************************)
(* The path functions by themselves: resolveZipPath on every base          *)
(* directory and reference of a bounded set, getResourceDataUri on         *)
(* archives that hold a resource under several spellings of its name.      *)
(***************************************************************************)

MaxSegs == 3

BaseDirs == {<<>>, <<".">>, <<"OEBPS">>, TextDir}
SegTokens == {"..", ".", "img", "a.png"}
\* References: an optional leading separator, then segments joined by "/"
\* or by "\\".
Hrefs ==
  { lead \o JoinWith([k \in DOMAIN segs |-> <<segs[k]>>], <<sep>>) :
      lead \in {<<>>, <<"/">>, <<"\\">>}, sep \in {"/", "\\"},
      segs \in SeqUpTo(SegTokens, MaxSegs) }

\* Entries under other spellings of OEBPS/img/a.png and OEBPS/img/a b.png.
SpelledEntries ==
  { <<Path(ImgDir, "a%20b.png"), ZipFile("bin", <<>>, "YSUyMGI=")>>,
    <<Path(ImgDir, "a b.png"), ZipFile("bin", <<>>, "YSBi")>>,
    <<<<"/">> \o Path(ImgDir, "a.png"), ZipFile("bin", <<>>, "L0E=")>>,
    <<<<".", "/">> \o Path(ImgDir, "a.png"), ZipFile("bin", <<>>, "Li9B")>> }

\* The archive with the given entries added.
WithEntries(archive, entries) ==
  [archive EXCEPT !.files =
     [p \in DOMAIN archive.files \cup {e[1] : e \in entries} |->
        IF \E e \in entries : e[1] = p THEN (CHOOSE e \in entries : e[1] = p)[2]
        ELSE archive.files[p]]]

LookupArchives ==
  {WithEntries(ArchiveOf(<<>>, "image", "ok"), entries) : entries \in SUBSET SpelledEntries}

\* The paths getResourceDataUri is asked for.
LookupPaths ==
  {e[1] : e \in SpelledEntries}
  \cup {Path(ImgDir, "a.png"), Path(ImgDir, "missing.png"), Path(ImgDir, "bad%zz.png")}

ResolveCall(dir, href) ==
  [fn |-> "resolveZipPath", baseDir |-> dir, href |-> href, returned |-> FALSE, result |-> <<>>]
LookupCall(path) ==
  [fn |-> "getResourceDataUri", baseDir |-> <<>>, href |-> path, returned |-> FALSE, result |-> <<>>]

\* No import request under way.
NoImport ==
  /\ zip = NoZip
  /\ pc = "request"
  /\ index = 0
  /\ chapters = <<>>
  /\ origin = <<>>
  /\ dom = NoDom
  /\ tasks = {}
  /\ error = "none"
  /\ parsed = NoBook
  /\ db = [novels |-> <<>>, chapters |-> <<>>]

PathInit ==
  /\ pc = "request"
  /\ index = 0
  /\ chapters = <<>>
  /\ origin = <<>>
  /\ dom = NoDom
  /\ tasks = {}
  /\ error = "none"
  /\ parsed = NoBook
  /\ db = [novels |-> <<>>, chapters |-> <<>>]
  /\ tts = Unmounted /\ eleven = Unmounted /\ reader = Unmounted
  /\ \/ zip = NoZip /\ call \in {ResolveCall(b, h) : b \in BaseDirs, h \in Hrefs}
     \/ zip \in LookupArchives /\ call \in {LookupCall(path) : path \in LookupPaths}

\* resolveZipPath returns.
ResolvePath ==
  /\ call.fn = "resolveZipPath" /\ ~call.returned
  /\ call' = [call EXCEPT !.returned = TRUE, !.result = resolveZipPath(call.baseDir, call.href)]
  /\ UNCHANGED <<importVars, hookVars>>

\* getResourceDataUri settles.
LookupResource ==
  /\ call.fn = "getResourceDataUri" /\ ~call.returned
  /\ call' = [call EXCEPT !.returned = TRUE, !.result = getResourceDataUri(call.href)]
  /\ UNCHANGED <<importVars, hookVars>>

PathNext == ResolvePath \/ LookupResource

PathSpec == PathInit /\ [][PathNext]_vars

(***************************************************************************)
(* What the import is checked against.  The definitions below restate the  *)
(* expected result from the archive alone.                                 *)
(***************************************************************************)

\* Whether x is an element of the sequence.
InSeq(seq, x) == \E k \in 1..Len(seq) : seq[k] = x

\* The elements of a sequence, as a set.
Range(seq) == {seq[k] : k \in 1..Len(seq)}

\* The document of spine item i once loaded and stripped of its scripts.
Loaded(i) == LoadAndStripScripts(ItemFile(i).data)

RECURSIVE SettleAll(_, _, _)
\* The document after the tasks ts have settled on d one at a time, in one
\* fixed order.
SettleAll(ts, d, i) ==
  IF ts = {} THEN d
  ELSE Let(CHOOSE t \in ts : TRUE, LAMBDA t : SettleAll(ts \ {t}, RunTask(t, d, i).dom, i))

\* The document of spine item i with its resources inlined in that order, and
\* the chapter extracted from it.
Inlined(i) == SettleAll(ScanTasks(Loaded(i)), Loaded(i), i)
ChapterOf(i) == Extract(Inlined(i), i)
Payload(i) == Let(ChapterOf(i), LAMBDA c : [title |-> c.title, content |-> c.content])

\* linear="no" in any letter case.
LinearIsNo(linear) ==
  linear.type = "string"
  /\ linear.value \in {<<"n", "o">>, <<"N", "o">>, <<"n", "O">>, <<"N", "O">>}

\* Spine item i but for its linear attribute: it names a manifest item of an
\* html media type whose file is in the archive, and the file yields content
\* that is neither empty nor dropped as front matter.
Readable(i) ==
  Let(spine[i + 1], LAMBDA ref :
    /\ ref.idref # ""
    /\ ManifestHas(ref.idref)
    /\ IncludesHtml(ManifestGet(ref.idref).mediaType)
    /\ ManifestGet(ref.idref).href # Empty
    /\ (HasFile(ResolvedPath(i)) \/ HasFile(decodeURIComponent(ResolvedPath(i))))
    /\ ChapterOf(i).keep)

\* The spine items that survive filtering, in spine order.
Survives(i) == ~LinearIsNo(spine[i + 1].linear) /\ Readable(i)
Survivors == SelectSeq([k \in 1..Len(spine) |-> k - 1], Survives)

\* A reference the inliner leaves alone: a data: URI or an absolute URL.
IsAbsolute(ref) == IsData(ref) \/ IsHttp(ref)

\* The archive path a reference of spine item i names.  The stylesheets of
\* the archives sit beside the documents, so a reference inlined from one
\* names the same path.
TargetPath(ref, i) == resolveZipPath(HtmlDir(i), CleanPath(ref))

\* A relative reference whose target is in the archive.
Resolvable(ref, i) == ref # Empty /\ ~IsAbsolute(ref) /\ HasFile(TargetPath(ref, i))

RECURSIVE StripCommas(_)
StripCommas(url) ==
  IF url # <<>> /\ url[Len(url)] = "," THEN StripCommas(SubSeq(url, 1, Len(url) - 1)) ELSE url

RECURSIVE Candidates(_)
\* The image candidates of a srcset value as HTML parses it: a URL runs to
\* the next white space, so a comma inside it belongs to it; a descriptor
\* runs to the next comma.
Candidates(srcset) ==
  Let(TrimLeft(srcset), LAMBDA s :
    IF s = <<>> THEN <<>>
    ELSE IF Head(s) = "," THEN Candidates(Tail(s))
    ELSE Let(EntryUrl(s), LAMBDA url :
         Let(SubSeq(s, Len(url) + 1, Len(s)), LAMBDA rest :
           IF url[Len(url)] = ","
             THEN <<[url |-> StripCommas(url), descriptor |-> <<>>]>> \o Candidates(rest)
           ELSE <<[url |-> url, descriptor |-> Trim(SplitOn(rest, ",")[1])]>>
                \o Candidates(JoinWith(Tail(SplitOn(rest, ",")), <<",">>)))))

\* The url() references of a style block or style attribute.
CssUrlRefs(css) == {css[k].ref : k \in {j \in 1..Len(css) : css[j].k \in {"url", "importUrl"}}}

\* The resource references of an element: img src and srcset candidates,
\* SVG image href and xlink:href, url() of its style attribute or block.
ResourceRefs(n) ==
  ((IF n.tag = "img" THEN {n.src} \cup {c.url : c \in Range(Candidates(n.srcset))} ELSE {})
   \cup (IF n.tag = "image" THEN {n.src, n.xlink} ELSE {})
   \cup CssUrlRefs(n.css)) \ {Empty}

\* The same, an SVG image counted by the one attribute it is resolved
\* through: href, or xlink:href when it has no href.
LookedUpRefs(n) ==
  ((IF n.tag = "img" THEN {n.src} \cup {c.url : c \in Range(Candidates(n.srcset))} ELSE {})
   \cup (IF n.tag = "image" THEN {IF n.src # Empty THEN n.src ELSE n.xlink} ELSE {})
   \cup CssUrlRefs(n.css)) \ {Empty}

\* Whether some reference of the content is a data: URI of the payload.
Carries(content, base64) ==
  \E j \in 1..Len(content.nodes) : \E str \in RefStrings(content.nodes[j]) :
     Includes(str, <<"data:">>) /\ Includes(str, <<",", base64>>)

\* C1: for every successful import the stored chapters are numbered 0, 1,
\* ..., n-1 in order, n being the number of chapters parseEpub returned,
\* whatever number of spine items was skipped.
C1_PositionsContiguous ==
  pc = "done" =>
    /\ Len(db.chapters) = Len(parsed.chapters)
    /\ \A k \in 1..Len(db.chapters) : db.chapters[k].position = k - 1

\* An import stored after the first of two spine items was skipped.
C1_Witness == pc = "done" /\ Len(spine) = 2 /\ origin = <<1>> /\ Len(db.chapters) = 1

\* C2: the chapters parseEpub returns are exactly the spine items that
\* survive filtering, one chapter each, in spine order.
C2_ChaptersAreSurvivingSpine ==
  pc = "parsed" =>
    /\ origin = Survivors
    /\ Len(parsed.chapters) = Len(origin)
    /\ \A k \in 1..Len(origin) : parsed.chapters[k] = Payload(origin[k])

\* Two chapters returned, from two spine items in their order.
C2_Witness == pc = "parsed" /\ Len(origin) = 2 /\ origin[1] < origin[2]

\* C3: no chapter content holds a script element or an attribute whose value
\* uses the javascript: scheme.
C3_NoScriptNoJavascript ==
  \A k \in 1..Len(chapters) : \A j \in 1..Len(chapters[k].content.nodes) :
     /\ chapters[k].content.nodes[j].tag # "script"
     /\ ~StartsWith(chapters[k].content.nodes[j].src, "javascript:")
     /\ ~StartsWith(chapters[k].content.nodes[j].xlink, "javascript:")

C5_ResolvableInlined ==
  \A k \in 1..Len(chapters) :
    Let(ItemFile(origin[k]).data.nodes, LAMBDA source :
    \A j \in 1..Len(source) :
      /\ \A ref \in (IF source[j].tag = "image" THEN {source[j].src} \ {Empty}
                     ELSE IF source[j].tag = "link" THEN {}
                     ELSE LookedUpRefs(source[j])) :
            Resolvable(ref, origin[k]) =>
              Carries(chapters[k].content, File(TargetPath(ref, origin[k])).b64)
      /\ (source[j].tag = "link" /\ Resolvable(source[j].src, origin[k])) =>
            \E n \in Range(chapters[k].content.nodes) : n.tag = "style" /\ n.css # <<>>
      /\ \A p \in 1..Len(source[j].css) :
            (source[j].tag = "style" /\ source[j].css[p].k \in {"import", "importUrl"}
             /\ Resolvable(source[j].css[p].ref, origin[k])) =>
               \A n \in Range(chapters[k].content.nodes) : ~InSeq(n.css, source[j].css[p]))

\* C6: when the resources of a document have been inlined, every reference
\* that was a data: URI or an absolute http(s) URL has the value it had in
\* the source: link href, img src, srcset candidates, SVG image href and
\* xlink:href, CSS url() and @import.
C6_AbsoluteUntouched ==
  (pc = "inline" /\ tasks = {}) =>
    \A j \in 1..Len(dom.nodes) :
      Let(Loaded(index).nodes[j], LAMBDA source :
      Let(dom.nodes[j], LAMBDA output :
        /\ IsAbsolute(source.src) => (output.src = source.src /\ output.tag = source.tag)
        /\ IsAbsolute(source.xlink) => output.xlink = source.xlink
        /\ \A c \in Range(Candidates(source.srcset)) :
              IsAbsolute(c.url) => c \in Range(Candidates(output.srcset))
        /\ \A p \in 1..Len(source.css) :
              (source.css[p].k # "text" /\ IsAbsolute(source.css[p].ref)) =>
                 InSeq(output.css, source.css[p])))

\* The result parseEpub returns for the archive, computed from the archive.
Expected ==
  Let(Survivors, LAMBDA kept :
    [title |-> BookTitle(FileName), author |-> opf.author, description |-> opf.description,
     coverImage |-> CoverImage.uri,
     chapters |-> [k \in 1..Len(kept) |-> Payload(kept[k])]])

\* C7: the result of parseEpub is a function of the archive and file name:
\* when the tasks of a document have all settled, in whatever order, the
\* document is the one a fixed order gives, and the ParsedBook returned is
\* the one computed from the archive.
C7_OrderIndependent ==
  /\ (pc = "inline" /\ tasks = {}) => dom = Inlined(index)
  /\ pc = "parsed" => parsed = Expected

\* The srcset task of an image has written its result while the src task of
\* the same image is still pending.
C7_Witness ==
  /\ pc = "inline"
  /\ \E t \in tasks : t.kind = "src" /\ dom.nodes[t.node].srcset # t.snap.srcset

\* C8: when the archive holds no META-INF/container.xml, parseEpub fails
\* with "Invalid EPUB: missing container.", returns nothing and processes no
\* spine item.
C8_MissingContainer ==
  (zip.ok /\ ~HasFile(ContainerPath)) =>
    /\ pc \in {"request", "open", "failed"}
    /\ pc = "failed" => error \in Refusals \cup {"Invalid EPUB: missing container."}
    /\ parsed = NoBook /\ index = 0 /\ chapters = <<>> /\ dom = NoDom /\ tasks = {}
    /\ db.novels = <<>>

\* parseEpub has failed on an archive without a container entry.
C8_Witness ==
  zip.ok /\ ~HasFile(ContainerPath) /\ pc = "failed" /\ error = "Invalid EPUB: missing container."

\* C9: parseEpub returns a ParsedBook only with at least one chapter, and
\* when the spine has been walked to its end without a chapter it fails with
\* "No readable chapters found.".
C9_NoReadableChapters ==
  /\ pc = "parsed" => parsed.chapters # <<>>
  /\ (pc = "failed" /\ ~(error \in Refusals) /\ OpenError = "none"
      /\ chapters = <<>> /\ index = Len(spine))
       => error = "No readable chapters found."

\* C10: once the spine has been walked, an item whose linear attribute is
\* "no" in any letter case has given no chapter, an item that is readable
\* and has any other linear value, or none, has given one, and a spine of
\* two readable items of which one is linear="no" has given one chapter.
C10_LinearNo ==
  (pc = "spine" /\ index = Len(spine)) =>
    /\ \A i \in 0..(Len(spine) - 1) :
         /\ LinearIsNo(spine[i + 1].linear) => ~InSeq(origin, i)
         /\ (~LinearIsNo(spine[i + 1].linear) /\ Readable(i)) => InSeq(origin, i)
    /\ (Len(spine) = 2 /\ Readable(0) /\ Readable(1)
        /\ LinearIsNo(spine[1].linear) # LinearIsNo(spine[2].linear)) => Len(chapters) = 1

\* A spine of two readable items, the first linear="NO", walked to its end
\* with the second as the only chapter.
C10_Witness ==
  /\ pc = "spine" /\ index = 2 /\ Len(spine) = 2
  /\ spine[1].linear = Linear("string", <<"N", "O">>)
  /\ Readable(0) /\ Readable(1)
  /\ origin = <<1>>

\* The words that mark a title as front matter.
FrontWords ==
  {<<"contents">>, <<"table">>, <<"cover">>, <<"title", " ", "page">>, <<"copyright">>,
   <<"introduction">>}

\* Spine item i passes the filters ahead of extraction: linear, declared as
\* html, its file in the archive.
Reaches(i) ==
  Let(spine[i + 1], LAMBDA ref :
    /\ ref.idref # "" /\ ~LinearIsNo(ref.linear)
    /\ ManifestHas(ref.idref)
    /\ IncludesHtml(ManifestGet(ref.idref).mediaType)
    /\ ManifestGet(ref.idref).href # Empty
    /\ (HasFile(ResolvedPath(i)) \/ HasFile(decodeURIComponent(ResolvedPath(i)))))

\* The source document of spine item i shows an img, an svg or an inline
\* background-image.
SourceVisual(i) ==
  \E n \in Range(ItemFile(i).data.nodes) :
     \/ n.tag \in {"img", "svg", "image"}
     \/ (n.tag # "style" /\ InSeq(n.css, CssText("background-image:")))

\* C11: a spine item with non-empty extracted content gives no chapter if
\* and only if its derived title contains a front-matter word in any letter
\* case, its plain text is shorter than 120 and it has no visual content.
C11_FrontMatterIff ==
  pc = "spine" =>
    \A i \in 0..(index - 1) :
      Reaches(i) =>
        Let(ChapterOf(i), LAMBDA c :
        Let(Content(Inlined(i)), LAMBDA content :
          ~BlankHtml(content) =>
            (~InSeq(origin, i) <=>
               /\ \E w \in FrontWords : Includes(LowerTitle(c.title), w)
               /\ SumLen(content.nodes) < 120
               /\ ~SourceVisual(i))))

\* A "Table of Contents" item of 40 characters was dropped and the same item
\* with one img was kept.
C11_Witness ==
  /\ pc = "spine" /\ Len(spine) = 2 /\ index = 2
  /\ Reaches(0) /\ ItemFile(0).data = DocFront
  /\ Reaches(1) /\ ItemFile(1).data = DocFrontImg
  /\ origin = <<1>>

\* The archive entry a manifest href names from the package directory, under
\* the name as written or percent-decoded: a sequence of at most one entry.
NamedFile(href) ==
  Let(resolveZipPath(baseDir, href), LAMBDA path :
    IF href = Empty THEN <<>>
    ELSE IF HasFile(path) THEN <<File(path)>>
    ELSE IF ~DecodeThrows(path) /\ HasFile(decodeURIComponent(path))
      THEN <<File(decodeURIComponent(path))>>
    ELSE <<>>)

\* C12: when parseEpub returns and the manifest item chosen as the cover
\* declares a media type and has its file in the archive, coverImage is
\* data:<that media type>;base64,<the base64 of the file's bytes>.
C12_CoverImageIsFileBytes ==
  pc = "parsed" =>
    \A item \in Range(coverItem) : \A file \in Range(NamedFile(item.href)) :
       item.mediaType # "" =>
         parsed.coverImage = <<"data:", item.mediaType, ";base64", ",", file.b64>>

\* A book returned whose cover is the cover-image item img/cover.jpg, of
\* type image/jpeg.
C12_Witness ==
  /\ pc = "parsed"
  /\ coverItem = <<CoverPic>>
  /\ parsed.coverImage = <<"data:", "image/jpeg", ";base64", ",", "Q292">>

\* C13: a resource reference that cannot be resolved never makes parseEpub
\* fail: no import fails while resource tasks of a document are pending.
C13_ResourceFailureNotFatal == pc = "failed" => tasks = {}

\* C14: the inlining of @import rules terminates for every archive: every
\* pending resource task is one that settles.
C14_ImportsTerminate == \A t \in tasks : RunTask(t, dom, index).st # "loop"

\* C15: persisting is all-or-nothing.  At every moment, and so after the
\* request has ended, the database holds either nothing of the import or one
\* Novel with one Chapter per parsed chapter, in the order of the ParsedBook;
\* a request that failed left nothing, one that succeeded left the whole.
NothingStored == db.novels = <<>> /\ db.chapters = <<>>
WholeStored ==
  /\ Len(db.novels) = 1
  /\ Len(db.chapters) = Len(parsed.chapters)
  /\ \A k \in 1..Len(db.chapters) :
       /\ db.chapters[k].novelId = db.novels[1].id
       /\ db.chapters[k].title = parsed.chapters[k].title
       /\ db.chapters[k].content = parsed.chapters[k].content
C15_AllOrNothing ==
  /\ NothingStored \/ (parsed # NoBook /\ WholeStored)
  /\ pc = "failed" => NothingStored
  /\ pc = "done" => WholeStored
C15_WitnessCommit == pc = "done" /\ WholeStored /\ Len(db.chapters) = 2
C15_Witness == pc = "failed" /\ error = "Transaction failed" /\ Len(parsed.chapters) = 2

\* C16: the structural checks run in the order container, root-file path,
\* package document, and the first one violated decides the error of
\* parseEpub: a container.xml that is absent or cannot be parsed gives
\* "missing container", a parsed one without root-file path gives "missing
\* manifest path", a declared path without file gives "missing package
\* definition"; no spine item is read.
C16_StructuralChecks ==
  (zip.ok /\ pc = "failed" /\ ~(error \in Refusals) /\ OpenError # "none") =>
    /\ index = 0 /\ chapters = <<>> /\ dom = NoDom /\ tasks = {} /\ parsed = NoBook
    /\ IF ~HasFile(ContainerPath) \/ File(ContainerPath).empty \/ ContainerGarbled
         THEN error = "Invalid EPUB: missing container."
       ELSE IF rootFilePath = Empty
         THEN error = "Invalid EPUB: missing manifest path."
       ELSE error = "Invalid EPUB: missing package definition."

\* C17: for every base directory, "" and "." included, and every reference,
\* the result of resolveZipPath has no ".." segment and no leading slash.
Segment(p, seg) == \E k \in 1..Len(SplitOn(p, "/")) : SplitOn(p, "/")[k] = seg
C17_NeverAboveRoot ==
  (call.fn = "resolveZipPath" /\ call.returned) =>
    ~Segment(call.result, <<"..">>) /\ ~StartsWith(call.result, "/")

\* C18: for every base directory, "" and "." included, resolveZipPath of a
\* reference that begins with "/" returns the reference without its leading
\* slash, nothing of the base directory before it, and with every
\* backslash as a forward slash.
C18_RootRelative ==
  (call.fn = "resolveZipPath" /\ call.returned /\ StartsWith(call.href, "/")) =>
    call.result = Tail(ReplaceBackslash(call.href))

\* C19: the lookup tries the literal path, its percent-decoded form, its
\* percent-encoded form, the path without leading slash and the path without
\* leading "./", in this order, and returns the file of the first of them
\* that is in the archive.
ClaimedOrder(path) ==
  <<path>> \o (IF DecodeThrows(path) THEN <<>> ELSE <<decodeURIComponent(path)>>)
  \o <<encodeURI(path), StripSlash(path), StripDotSlash(path)>>
C19_LookupOrder ==
  (call.fn = "getResourceDataUri" /\ call.returned) =>
    Let(FirstHit(ClaimedOrder(call.href)), LAMBDA first :
        first # Empty =>
          /\ call.result.st = "ok"
          /\ call.result.uri[5] = File(first).b64)

\* C20: the cover item is chosen by strict precedence: the manifest item
\* whose id is the content of a meta tag named cover (by name or by
\* property) when there is such an item, otherwise the first item whose
\* properties hold cover-image, otherwise the first item of an image/ media
\* type.
IsCoverTag(m) == LowerWord(m.name) = "cover" \/ LowerWord(m.property) = "cover"
ClaimedCover ==
  Let(Find(manifest, LAMBDA item :
             \E k \in 1..Len(opf.meta) : IsCoverTag(opf.meta[k]) /\ TrimWord(opf.meta[k].content) = item.id),
      LAMBDA byTag :
  Let(Find(manifest, LAMBDA item : Includes(item.properties, <<"cover-image">>)), LAMBDA byProp :
      IF byTag # <<>> THEN byTag
      ELSE IF byProp # <<>> THEN byProp
      ELSE Find(manifest, LAMBDA item : IsImageType(item.mediaType))))
C20_CoverPrecedence == pc = "parsed" => coverItem = ClaimedCover

\* C21: the title of a chapter is the text of the first h1/h2/h3 of its
\* content when that is not empty, else the text of the document's <title>
\* when not empty, else the text of the first element whose class contains
\* "title" when not empty, else "Chapter N" with N the 1-based place of the
\* item in the spine as declared.
ClaimedTitle(k) ==
  Let(FirstText(chapters[k].content.nodes, LAMBDA n : n.tag \in {"h1", "h2", "h3"}), LAMBDA heading :
  Let(FirstText(Loaded(origin[k]).nodes, LAMBDA n : n.tag = "title"), LAMBDA headTitle :
  Let(FirstText(Loaded(origin[k]).nodes, LAMBDA n : n.cls), LAMBDA classed :
      IF heading # <<>> THEN heading
      ELSE IF headTitle # <<>> THEN headTitle
      ELSE IF classed # <<>> THEN classed
      ELSE <<"Chapter", " ", NumStr[origin[k] + 1]>>)))
C21_TitlePrecedence ==
  pc \in {"spine", "parsed"} => \A k \in 1..Len(chapters) : chapters[k].title = ClaimedTitle(k)
\* The second spine item gave the first chapter, named after its place in
\* the spine; a chapter took its title from a <title> ahead of a classed
\* element.
C21_Witness ==
  /\ pc = "parsed" /\ origin = <<1>> /\ chapters[1].title = <<"Chapter", " ", "2">>
C21_WitnessTitle ==
  /\ pc = "parsed" /\ Len(chapters) = 1 /\ chapters[1].title = <<"Head">>
  /\ \E k \in 1..Len(Loaded(0).nodes) : Loaded(0).nodes[k].cls /\ Loaded(0).nodes[k].text # <<>>

\* C22: a content document goes through the allowlist sanitization exactly
\* when, its scripts removed, it holds no img, no svg and no element with an
\* inline background-image style; a document with one of these is emitted
\* from the processed document without that sanitization.  Stated of the
\* chapter the spine loop has just pushed.
VisualDocument(d) ==
  \E k \in 1..Len(d.nodes) :
     \/ d.nodes[k].tag \in {"img", "svg", "image"}
     \/ /\ d.nodes[k].tag # "style"
        /\ \E j \in 1..Len(d.nodes[k].css) : d.nodes[k].css[j].ref = <<"background-image:">>
JustPushed == pc = "spine" /\ origin # <<>> /\ origin[Len(origin)] = index - 1
C22_SanitizedIffNotVisual ==
  JustPushed =>
    Let(Inlined(index - 1), LAMBDA d :
    Let(chapters[Len(chapters)].content, LAMBDA content :
        IF VisualDocument(d)
          THEN content.nodes \in {BodyNodes(d), CleanVisual(BodyNodes(d))}
          ELSE content = sanitizeHtml(BodyHtml(d))))
\* A chapter whose only visual content is a background image was emitted
\* with the style the sanitization would have removed a url() from.
C22_Witness ==
  /\ JustPushed
  /\ ~HasVisualNoBackground(Inlined(index - 1).nodes)
  /\ VisualDocument(Inlined(index - 1))
  /\ chapters[Len(chapters)].content # sanitizeHtml(BodyHtml(Inlined(index - 1)))

\* C23: the content emitted for a document classified as visual carries no
\* onclick and no onerror attribute, whether or not the document held a
\* script element or a javascript: URL.
C23_NoHandlersInVisual ==
  (JustPushed /\ VisualDocument(Inlined(index - 1))) =>
    \A k \in 1..Len(chapters[Len(chapters)].content.nodes) :
       ~chapters[Len(chapters)].content.nodes[k].on

\* C24: a spine item whose extracted content is empty or blank gives no
\* chapter and the walk goes on to the next item; the import fails for want
\* of chapters only when no item at all gave one.
EmptyItem(i) == Reaches(i) /\ BlankHtml(Content(Inlined(i)))
C24_EmptyItemSkipped ==
  /\ pc \in {"spine", "parsed"} =>
       \A i \in 0..(index - 1) : EmptyItem(i) => ~InSeq(origin, i)
  /\ (pc = "failed" /\ error = "No readable chapters found.") =>
       chapters = <<>> /\ index = Len(spine)
  /\ \A k \in 1..Len(chapters) : ~BlankHtml(chapters[k].content)
\* A book was returned whose first spine item was empty and whose second
\* gave the one chapter.
C24_Witness ==
  pc = "parsed" /\ Len(spine) = 2 /\ EmptyItem(0) /\ origin = <<1>>

\* C25: when the resources of a document have been inlined, every relative
\* reference whose target is not in the archive has the value it had in the
\* source: stylesheet link, img src, each such candidate of an img srcset
\* (also beside candidates that resolve), SVG image href and xlink:href,
\* CSS url() and @import.
Unresolvable(ref, i) ==
  ref # Empty /\ ~IsAbsolute(ref) /\ ~DecodeThrows(ref) /\ ~HasFile(TargetPath(ref, i))
C25_UnresolvedLeftAsWritten ==
  (pc = "inline" /\ tasks = {}) =>
    \A j \in 1..Len(dom.nodes) :
      Let(Loaded(index).nodes[j], LAMBDA source :
      Let(dom.nodes[j], LAMBDA output :
        /\ Unresolvable(source.src, index) => (output.src = source.src /\ output.tag = source.tag)
        /\ Unresolvable(source.xlink, index) => output.xlink = source.xlink
        /\ \A c \in Range(Candidates(source.srcset)) :
              Unresolvable(c.url, index) => c \in Range(Candidates(output.srcset))
        /\ \A p \in 1..Len(source.css) :
              (source.css[p].k # "text" /\ Unresolvable(source.css[p].ref, index)) =>
                 InSeq(output.css, source.css[p])))

\* C26: every resource task started for a document has completed before the
\* chapter is serialized, whatever the order of completion: while the spine
\* is walked tasks are pending only between the scan of a document and its
\* extraction, and the chapter just pushed is the one its fully inlined
\* document gives.
C26_TasksJoinedBeforeSerialization ==
  /\ pc \in {"spine", "parsed", "done"} => tasks = {} /\ dom = NoDom
  /\ JustPushed => chapters[Len(chapters)].content = Content(Inlined(index - 1))
                    \/ chapters[Len(chapters)].content.nodes = BodyNodes(Inlined(index - 1))
\* A chapter was pushed for a document that had started two tasks.
C26_Witness ==
  /\ JustPushed
  /\ Cardinality(ScanTasks(Loaded(index - 1))) = 2
  /\ Inlined(index - 1) # Loaded(index - 1)

\* ------------------------------------------------------------------------
\* useTTS (src/hooks/use-tts.ts): speech through window.speechSynthesis.
\* The hook keeps React state (isPlaying, isPaused) and refs
\* (manualStopModeRef, shouldAnnounceCompletionRef, completionCallbackRef).
\* The synthesizer keeps a queue of utterances, the first of which it speaks;
\* cancel() removes them all and the browser later fires each removed
\* utterance's last event, "end" on some browsers and "error" on others, as a
\* task of its own.
\* ------------------------------------------------------------------------

\* The cancelled utterances whose last event the model keeps in flight.
MaxPending == 2
\* The utterances the model lets the synthesizer hold.
MaxQueue == 2

\* What a browser fires on an utterance removed by cancel().
Platforms == {"end", "error"}
\* The text handed to speak(): nothing to read, or some words.
Texts == {"empty", "words"}
\* options.onComplete: absent, or a callback.
Callbacks == {"none", "onComplete"}

\* The hook after mounting, nothing spoken yet.
TtsIdle(platform) ==
  [mounted |-> TRUE, platform |-> platform,
   isPlaying |-> FALSE, isPaused |-> FALSE,
   manualStopMode |-> "null", shouldAnnounce |-> FALSE, callback |-> "none",
   queue |-> <<>>, pending |-> <<>>, announced |-> {}]

\* The event of an utterance removed by cancel(): "end", or an error that is
\* "interrupted" for an utterance being spoken and "canceled" for one that
\* had not started.
CancelEvent(platform, utterance) ==
  IF platform = "end" THEN "end"
  ELSE IF utterance = "speaking" THEN "interrupted" ELSE "canceled"

\* window.speechSynthesis.cancel()
Cancel(t) ==
  [t EXCEPT !.queue = <<>>,
            !.pending = @ \o [k \in 1..Len(t.queue) |-> CancelEvent(t.platform, t.queue[k])]]

resetPlaybackState(t) == [t EXCEPT !.isPlaying = FALSE, !.isPaused = FALSE]

\* playFromWordIndex: a new utterance is handed to the synthesizer.
playFromWordIndex(t) ==
  [t EXCEPT !.manualStopMode = "null",
            !.shouldAnnounce = (t.callback # "none"),
            !.queue = Append(@, "queued")]

\* utterance.onstart
OnStart(t) == [t EXCEPT !.isPlaying = TRUE, !.isPaused = FALSE]

\* utterance.onend; cause is "natural" when the utterance was read to its
\* end and "cancel" when cancel() removed it.
OnEnd(t, cause) ==
  IF t.manualStopMode = "pause"
    THEN [t EXCEPT !.manualStopMode = "null", !.isPaused = TRUE, !.isPlaying = TRUE]
  ELSE IF t.manualStopMode = "skip"
    THEN playFromWordIndex([t EXCEPT !.manualStopMode = "null"])
  ELSE [resetPlaybackState(t) EXCEPT
          !.announced = IF t.shouldAnnounce /\ t.callback # "none"
                          THEN @ \cup {cause} ELSE @,
          !.shouldAnnounce = FALSE,
          !.callback = "none"]

\* utterance.onerror
OnError(t, errorMessage) ==
  IF errorMessage # "interrupted" \/ t.manualStopMode = "null"
    THEN [resetPlaybackState(Cancel(t)) EXCEPT
            !.shouldAnnounce = FALSE, !.callback = "none"]
    ELSE t

\* The handler of an utterance's last event.
OnLast(t, event, cause) ==
  IF event = "end" THEN OnEnd(t, cause) ELSE OnError(t, event)

\* The states the model follows.
Bounded(t) == Len(t.pending) <= MaxPending /\ Len(t.queue) <= MaxQueue

TtsSpeak ==
  /\ tts.mounted
  /\ \E text \in Texts, onComplete \in Callbacks :
       tts' = Let(Cancel([tts EXCEPT !.shouldAnnounce = FALSE, !.callback = "none"]),
                  LAMBDA t :
                    IF text = "empty" THEN t
                    ELSE playFromWordIndex([t EXCEPT !.callback = onComplete,
                                                     !.shouldAnnounce = (onComplete # "none")]))
  /\ Bounded(tts')
  /\ UNCHANGED <<importVars, call, eleven, reader>>

TtsPause ==
  /\ tts.mounted
  /\ tts.isPlaying /\ ~tts.isPaused
  /\ tts' = Cancel([tts EXCEPT !.isPaused = TRUE, !.manualStopMode = "pause",
                               !.shouldAnnounce = FALSE])
  /\ Bounded(tts')
  /\ UNCHANGED <<importVars, call, eleven, reader>>

TtsResume ==
  /\ tts.mounted
  /\ tts.isPaused
  /\ tts' = playFromWordIndex([tts EXCEPT !.isPaused = FALSE])
  /\ Bounded(tts')
  /\ UNCHANGED <<importVars, call, eleven, reader>>

TtsStop ==
  /\ tts.mounted
  /\ tts' = resetPlaybackState(Cancel([tts EXCEPT !.manualStopMode = "null",
                                                  !.shouldAnnounce = FALSE,
                                                  !.callback = "none"]))
  /\ Bounded(tts')
  /\ UNCHANGED <<importVars, call, eleven, reader>>

\* skipParagraph, when the text has a paragraph break ahead.
TtsSkipParagraph ==
  /\ tts.mounted
  /\ tts.isPlaying
  /\ tts' = Cancel([tts EXCEPT !.manualStopMode = "skip", !.shouldAnnounce = FALSE])
  /\ Bounded(tts')
  /\ UNCHANGED <<importVars, call, eleven, reader>>

\* The synthesizer starts the utterance.
TtsStart ==
  /\ tts.mounted
  /\ tts.queue # <<>> /\ Head(tts.queue) = "queued"
  /\ tts' = OnStart([tts EXCEPT !.queue[1] = "speaking"])
  /\ Bounded(tts')
  /\ UNCHANGED <<importVars, call, eleven, reader>>

\* The utterance is read to its end.
TtsEndNaturally ==
  /\ tts.mounted
  /\ tts.queue # <<>> /\ Head(tts.queue) = "speaking"
  /\ tts' = OnEnd([tts EXCEPT !.queue = Tail(@)], "natural")
  /\ Bounded(tts')
  /\ UNCHANGED <<importVars, call, eleven, reader>>

\* The synthesizer fails on the utterance.
TtsFail ==
  /\ tts.mounted
  /\ tts.queue # <<>>
  /\ tts' = OnError([tts EXCEPT !.queue = Tail(@)], "synthesis-failed")
  /\ Bounded(tts')
  /\ UNCHANGED <<importVars, call, eleven, reader>>

\* The last event of a cancelled utterance is delivered.
TtsDeliverCancelled ==
  /\ tts.mounted
  /\ tts.pending # <<>>
  /\ tts' = OnLast([tts EXCEPT !.pending = Tail(@)], Head(tts.pending), "cancel")
  /\ Bounded(tts')
  /\ UNCHANGED <<importVars, call, eleven, reader>>

TtsInit ==
  /\ NoImport
  /\ call = NoCall
  /\ tts \in {TtsIdle(platform) : platform \in Platforms}
  /\ eleven = Unmounted /\ reader = Unmounted

TtsNext ==
  \/ TtsSpeak
  \/ TtsPause
  \/ TtsResume
  \/ TtsStop
  \/ TtsSkipParagraph
  \/ TtsStart
  \/ TtsEndNaturally
  \/ TtsFail
  \/ TtsDeliverCancelled

TtsSpec == TtsInit /\ [][TtsNext]_vars

\* C27: the onComplete given to speak() is invoked only when an utterance is
\* read to its natural end, never by the last event of an utterance that
\* pause(), skipParagraph(), stop() or a new speak() removed with cancel(),
\* however that event interleaves with a following resume() or speak().
C27_OnCompleteOnlyAtNaturalEnd ==
  tts.mounted => "cancel" \notin tts.announced

\* ------------------------------------------------------------------------
\* useElevenLabsTTS (src/hooks/use-elevenlabs-tts.ts): speech synthesized by
\* the server and played through an Audio element.  Every speak() call awaits
\* the synthesis response, then makes an element and awaits its play().
\* An element queues its events; they are delivered later, in order.  Loading
\* an element (src = "", load()) removes its queued events and rejects its
\* pending play() promise, as the HTML media element load algorithm does; the
\* rejection runs the catch block of the awaiting speak() before any other
\* task.
\* ------------------------------------------------------------------------

\* The speak() calls the model follows.
MaxSpeaks == 2
\* The events the model lets an element hold undelivered.
MaxEvents == 3

\* An Audio element not made yet.
NoAudio == [state |-> "none", events |-> <<>>]
\* A speak() call not made yet.
NoSpeak == [pc |-> "unused", onComplete |-> "none", audio |-> NoAudio]

\* The hook after mounting.
ElevenIdle ==
  [mounted |-> TRUE, isGenerating |-> FALSE, isPlaying |-> FALSE, isPaused |-> FALSE,
   callback |-> "none", audioRef |-> 0,
   calls |-> [k \in 1..MaxSpeaks |-> NoSpeak],
   stopped |-> FALSE, completedAfterStop |-> FALSE]

\* HTMLMediaElement.pause()
AudioPause(a) ==
  IF a.state = "playing"
    THEN [a EXCEPT !.state = "paused", !.events = Append(@, "pause")]
    ELSE a

\* HTMLMediaElement.play() where playback is allowed
AudioPlay(a) ==
  IF a.state = "playing" THEN a
  ELSE [a EXCEPT !.state = "playing", !.events = @ \o <<"play", "playing">>]

\* src = "" and load()
AudioLoad(a) == [a EXCEPT !.state = "emptied", !.events = <<>>]

cleanupAudio(e) ==
  IF e.audioRef = 0 THEN e
  ELSE [e EXCEPT !.calls[e.audioRef].audio = AudioLoad(AudioPause(@)),
                 !.calls[e.audioRef].pc = IF @ = "play" THEN "aborted" ELSE @,
                 !.audioRef = 0]

\* The catch and finally blocks of speak() call k.
SpeakCatch(e, k) ==
  [cleanupAudio([e EXCEPT !.callback = "none"]) EXCEPT
     !.isPlaying = FALSE, !.isPaused = FALSE, !.isGenerating = FALSE,
     !.calls[k].pc = "done"]

\* speak() call k after a good response, up to its await of audio.play().
SpeakPlay(e, k, allowed) ==
  Let(cleanupAudio([e EXCEPT !.callback = "none"]), LAMBDA c :
    [c EXCEPT !.audioRef = k,
              !.callback = c.calls[k].onComplete,
              !.calls[k].audio = IF allowed THEN AudioPlay([state |-> "paused", events |-> <<>>])
                                 ELSE [state |-> "paused", events |-> <<>>],
              !.calls[k].pc = IF allowed THEN "play" ELSE "aborted"])

\* The "ended" listener
OnEnded(e) ==
  cleanupAudio([e EXCEPT !.isPlaying = FALSE, !.isPaused = FALSE,
                         !.completedAfterStop = @ \/ (e.stopped /\ e.callback # "none"),
                         !.callback = "none"])

\* The "pause" listener of the element of call k
OnPause(e, k) ==
  IF e.calls[k].audio.state # "ended" THEN [e EXCEPT !.isPaused = TRUE] ELSE e

\* The "play" listener
OnPlay(e) == [e EXCEPT !.isPlaying = TRUE, !.isPaused = FALSE]

\* The play() promise of call k resolves: speak() returns through finally.
OnPlaying(e, k) ==
  IF e.calls[k].pc = "play"
    THEN [e EXCEPT !.calls[k].pc = "done", !.isGenerating = FALSE]
    ELSE e

\* No rejected play() promise waits for its catch block.
NoRejection(e) == \A k \in 1..MaxSpeaks : e.calls[k].pc # "aborted"
\* The states the model follows.
ElevenBounded(e) == \A k \in 1..MaxSpeaks : Len(e.calls[k].audio.events) <= MaxEvents

ElevenSpeak ==
  /\ eleven.mounted /\ NoRejection(eleven)
  /\ \E k \in 1..MaxSpeaks, text \in Texts, onComplete \in Callbacks :
       /\ eleven.calls[k].pc = "unused"
       /\ \A j \in 1..(k - 1) : eleven.calls[j].pc # "unused"
       /\ eleven' = IF text = "empty" THEN [eleven EXCEPT !.stopped = FALSE]
                    ELSE [eleven EXCEPT !.stopped = FALSE,
                                        !.isGenerating = TRUE,
                                        !.calls[k].pc = "fetch",
                                        !.calls[k].onComplete = onComplete]
  /\ UNCHANGED <<importVars, call, tts, reader>>

\* The synthesis response of call k arrives.
ElevenResponse ==
  /\ eleven.mounted /\ NoRejection(eleven)
  /\ \E k \in 1..MaxSpeaks, ok \in BOOLEAN, allowed \in BOOLEAN :
       /\ eleven.calls[k].pc = "fetch"
       /\ eleven' = IF ok THEN SpeakPlay(eleven, k, allowed) ELSE SpeakCatch(eleven, k)
  /\ UNCHANGED <<importVars, call, tts, reader>>

\* The catch block of a call whose play() promise was rejected.
ElevenCatch ==
  /\ eleven.mounted
  /\ \E k \in 1..MaxSpeaks :
       /\ eleven.calls[k].pc = "aborted"
       /\ eleven' = SpeakCatch(eleven, k)
  /\ UNCHANGED <<importVars, call, tts, reader>>

ElevenPause ==
  /\ eleven.mounted /\ NoRejection(eleven)
  /\ eleven.audioRef # 0
  /\ eleven' = [eleven EXCEPT !.calls[eleven.audioRef].audio = AudioPause(@)]
  /\ ElevenBounded(eleven')
  /\ UNCHANGED <<importVars, call, tts, reader>>

ElevenResume ==
  /\ eleven.mounted /\ NoRejection(eleven)
  /\ eleven.audioRef # 0
  /\ eleven' = [eleven EXCEPT !.calls[eleven.audioRef].audio = AudioPlay(@)]
  /\ ElevenBounded(eleven')
  /\ UNCHANGED <<importVars, call, tts, reader>>

ElevenStop ==
  /\ eleven.mounted /\ NoRejection(eleven)
  /\ eleven' = [cleanupAudio([eleven EXCEPT !.callback = "none"]) EXCEPT
                  !.isPlaying = FALSE, !.isPaused = FALSE, !.stopped = TRUE]
  /\ UNCHANGED <<importVars, call, tts, reader>>

\* An element plays to its end: it pauses itself and fires "pause", "ended".
ElevenAudioEnds ==
  /\ eleven.mounted /\ NoRejection(eleven)
  /\ \E k \in 1..MaxSpeaks :
       /\ eleven.calls[k].audio.state = "playing"
       /\ eleven' = [eleven EXCEPT !.calls[k].audio.state = "ended",
                                   !.calls[k].audio.events = @ \o <<"pause", "ended">>]
  /\ ElevenBounded(eleven')
  /\ UNCHANGED <<importVars, call, tts, reader>>

\* The oldest undelivered event of an element reaches its listener.
ElevenDeliver ==
  /\ eleven.mounted /\ NoRejection(eleven)
  /\ \E k \in 1..MaxSpeaks :
       /\ eleven.calls[k].audio.events # <<>>
       /\ eleven' =
            Let(Head(eleven.calls[k].audio.events), LAMBDA event :
            Let([eleven EXCEPT !.calls[k].audio.events = Tail(@)], LAMBDA e :
              CASE event = "play" -> OnPlay(e)
                [] event = "pause" -> OnPause(e, k)
                [] event = "ended" -> OnEnded(e)
                [] event = "playing" -> OnPlaying(e, k)))
  /\ UNCHANGED <<importVars, call, tts, reader>>

ElevenInit ==
  /\ NoImport
  /\ call = NoCall
  /\ eleven = ElevenIdle
  /\ tts = Unmounted /\ reader = Unmounted

ElevenNext ==
  \/ ElevenSpeak
  \/ ElevenResponse
  \/ ElevenCatch
  \/ ElevenPause
  \/ ElevenResume
  \/ ElevenStop
  \/ ElevenAudioEnds
  \/ ElevenDeliver

ElevenSpec == ElevenInit /\ [][ElevenNext]_vars

\* C28: after stop() has returned and until speak() is called again, no
\* audio is playing and onComplete has not been invoked, also when stop() was
\* called while an earlier speak() was still awaiting the synthesis response.
C28_SilentAfterStop ==
  (eleven.mounted /\ eleven.stopped) =>
    /\ \A k \in 1..MaxSpeaks : eleven.calls[k].audio.state # "playing"
    /\ ~eleven.completedAfterStop

\* No audio event is undelivered and no catch block is due.
EventsDelivered ==
  /\ NoRejection(eleven)
  /\ \A k \in 1..MaxSpeaks : eleven.calls[k].audio.events = <<>>
\* The first half of C29: isPaused implies isPlaying.
PausedImpliesPlaying == eleven.mounted => (eleven.isPaused => eleven.isPlaying)
\* C29: isPaused implies isPlaying in every reachable state, and once stop()
\* has been called and every pending audio event (pause, play, ended) has
\* been delivered, isPlaying and isPaused are both false.
C29_PausedImpliesPlaying ==
  /\ PausedImpliesPlaying
  /\ (eleven.mounted /\ eleven.stopped /\ EventsDelivered) =>
       (~eleven.isPlaying /\ ~eleven.isPaused)

\* ------------------------------------------------------------------------
\* ReaderView's progress sync (src/components/sign-out-button.tsx 345-376)
\* and the PATCH handler of /api/novels/[novelId]/progress.  Every change of
\* the displayed chapter runs the cleanup of the previous effect (abort the
\* request, clear the timer) and then the effect: nothing when the chapter
\* is the one last persisted, else a 500 ms timer whose callback sends the
\* request and, on its response, records the chapter as persisted.  A
\* request aborted after it was sent may still reach the server.
\* ------------------------------------------------------------------------

\* The chapters of the novel.
NumChapters == 2
\* The chapter changes the model follows.
MaxMoves == 3

ChapterIds == 1..NumChapters

\* ReaderView after mounting on chapter c, its first effect run.
ReaderMounted(c) ==
  [mounted |-> TRUE, currentChapterId |-> c, lastPersistedChapterId |-> 0,
   effect |-> 1, timeout |-> c, requests |-> {},
   lastReadChapterId |-> 0, moves |-> 0]

\* The cleanup of the effect: controller.abort() and clearTimeout(timeout).
\* An aborted request the server has already answered is over.
EffectCleanup(r) ==
  [r EXCEPT !.timeout = 0,
            !.requests = {[q EXCEPT !.aborted = @ \/ (q.id = r.effect)] : q \in
                            {q \in r.requests : ~(q.id = r.effect /\ q.stage = "applied")}},
            !.effect = 0]

\* The effect for the chapter displayed now.
ProgressEffect(r) ==
  IF r.lastPersistedChapterId = r.currentChapterId THEN r
  ELSE [r EXCEPT !.effect = r.moves + 1, !.timeout = r.currentChapterId]

\* The reader moves to another chapter.
ReaderNavigate ==
  /\ reader.mounted
  /\ reader.moves < MaxMoves
  /\ \E c \in ChapterIds \ {reader.currentChapterId} :
       reader' = ProgressEffect([EffectCleanup(reader) EXCEPT
                                   !.currentChapterId = c, !.moves = @ + 1])
  /\ UNCHANGED <<importVars, call, tts, eleven>>

\* The 500 ms timer fires: the request is sent.
ReaderTimeout ==
  /\ reader.mounted
  /\ reader.timeout # 0
  /\ reader' = [reader EXCEPT
                  !.timeout = 0,
                  !.requests = @ \cup {[id |-> reader.effect, chapterId |-> reader.timeout,
                                        stage |-> "sent", aborted |-> FALSE]}]
  /\ UNCHANGED <<importVars, call, tts, eleven>>

\* PATCH: the server sets lastReadChapterId; nobody waits for the answer to
\* an aborted request.
ProgressPatch ==
  /\ reader.mounted
  /\ \E q \in reader.requests :
       /\ q.stage = "sent"
       /\ reader' = [reader EXCEPT
                       !.lastReadChapterId = q.chapterId,
                       !.requests = (@ \ {q}) \cup
                                    (IF q.aborted THEN {} ELSE {[q EXCEPT !.stage = "applied"]})]
  /\ UNCHANGED <<importVars, call, tts, eleven>>

\* An aborted request never reaches the server.
ProgressDropped ==
  /\ reader.mounted
  /\ \E q \in reader.requests :
       /\ q.stage = "sent" /\ q.aborted
       /\ reader' = [reader EXCEPT !.requests = @ \ {q}]
  /\ UNCHANGED <<importVars, call, tts, eleven>>

\* The response arrives: the awaiting callback records the chapter.
ProgressResponse ==
  /\ reader.mounted
  /\ \E q \in reader.requests :
       /\ q.stage = "applied" /\ ~q.aborted
       /\ reader' = [reader EXCEPT !.lastPersistedChapterId = q.chapterId,
                                   !.requests = @ \ {q}]
  /\ UNCHANGED <<importVars, call, tts, eleven>>

ReaderInit ==
  /\ NoImport
  /\ call = NoCall
  /\ reader \in {ReaderMounted(c) : c \in ChapterIds}
  /\ tts = Unmounted /\ eleven = Unmounted

ReaderNext ==
  \/ ReaderNavigate
  \/ ReaderTimeout
  \/ ProgressPatch
  \/ ProgressDropped
  \/ ProgressResponse

\* Timers fire, and requests are served and answered: only the reader's own
\* moves may stay away for ever.
ReaderSpec ==
  /\ ReaderInit /\ [][ReaderNext]_vars
  /\ WF_vars(ReaderTimeout)
  /\ WF_vars(ProgressPatch)
  /\ WF_vars(ProgressResponse)

\* No timer is pending and no request is under way.
Quiescent == reader.timeout = 0 /\ reader.requests = {}

\* C30: once the reader stops navigating and every timer and request has
\* finished, the last progress update the server applied names the chapter
\* displayed, for every interleaving of chapter changes, timer, abort and
\* delivery, returning to a chapter persisted earlier included: in every
\* state with no timer pending and no request under way lastReadChapterId
\* is the displayed chapter.
C30_ProgressConverges ==
  (reader.mounted /\ Quiescent) => reader.lastReadChapterId = reader.currentChapterId

====
